---- MODULE Spec2Model ----
(***************************************************************************)
(* State-machine model of the backend relay (server.js): the auth gate,    *)
(* the settings proxy, the document ingest proxy, the completion retry     *)
(* wrapper, the messaging webhook and the broadcast composer.              *)
(*                                                                         *)
(* The external services (auth/database, completion API and its file       *)
(* store, messaging API) are environments: every call to one of them has   *)
(* an outcome the handler's action draws with \E.                          *)
(***************************************************************************)
EXTENDS Integers, Sequences, FiniteSets, TLC

VARIABLES
    supabase,       \* TRUE when the database/auth client was created at start-up
    env,            \* process.env: the variables the server reads ("" when absent)
    ai,             \* the process-wide completion client: its API key, "" when undefined
    app_settings,   \* the singleton settings row
    retryPc,        \* callGeminiWithRetry: idle, attempting, sleeping, done
    retryI,         \* callGeminiWithRetry: the loop variable i
    retryLog,       \* events of the current callGeminiWithRetry call: attempts and sleeps
    retryResult,    \* what the last finished callGeminiWithRetry call returned or threw
    profiles,       \* the profiles table: user id -> role column ("<none>" when no row)
    mockUsers,      \* the in-memory user list
    nextUserId,     \* stands for Date.now(): the id the next created user gets
    adminWrites,    \* successful state-changing requests so far (bounds the model)
    lastReq,        \* the last request to an endpoint behind the auth gate, as answered
    bcPc,           \* broadcast handler: idle, loop, sending, pacing, done
    bcBody,         \* broadcast handler: req.body (numbers, type)
    bcAuth,         \* broadcast handler: what requireAuth decided (req.user and its role)
    bcCreds,        \* broadcast handler: phoneNumberId and whatsappToken in use
    bcIdx,          \* broadcast handler: position of the for..of loop in numbers
    bcResults,      \* broadcast handler: the results object
    bcLog,          \* broadcast handler: the outbound sends and pacing sleeps, in order
    bcResp,         \* broadcast handler: the response sent
    whPc,           \* webhook handler: idle, processing, done
    whBody,         \* webhook handler: req.body (object, messages)
    whIdx,          \* webhook handler: position of the for..of loop in messages
    whResp,         \* webhook handler: the status sent, 0 before
    whLog,          \* webhook handler: the response and the calls made per message, in order
    whAborted,      \* webhook handler: TRUE when the outer catch ended the loop
    documents,      \* the documents table: rows with id, hash, google_name
    nextDocId,      \* the id the database gives the next inserted row
    providerFiles,  \* names of the files that exist in the provider's file store
    nextFileName,   \* the name the provider gives the next uploaded file
    uploadsDir,     \* upload requests whose temporary file is in the uploads directory
    up,             \* upload requests in flight: slot -> position, file, response
    del,            \* DELETE /api/files/:id handler: position, row found, response
    accepted,       \* hashes of the uploads answered 200 and not deleted with success since
    uploadsStarted, \* upload requests so far (bounds the model)
    vfQuery,        \* GET /webhook handler: req.query of the last request
    vfResp,         \* GET /webhook handler: the status and body sent
    request_logs,   \* the request_logs table: the rows inserted, in order
    chReq,          \* POST /api/chat handler: req.body and req.user of the last request
    chResp,         \* POST /api/chat handler: the status and response text sent
    connectionStatus, \* StrategyHub: 'unknown', 'connected' or 'disconnected'
    loading,        \* StrategyHub: a strategy generation is shown as running
    result,         \* StrategyHub: the strategy shown: none, the backend's, the mock
    isSendModalOpen, \* StrategyHub: the broadcast dialog is open
    sending,        \* StrategyHub: the broadcast dialog shows a send as running
    sendReport,     \* StrategyHub: the report shown: none, the backend's, the simulated
    genPc,          \* handleGenerate: idle, or awaiting its fetch
    genConn,        \* handleGenerate: the connectionStatus its closure holds
    sendPc,         \* executeSend: idle, or awaiting its fetch
    sendConn,       \* executeSend: the connectionStatus its closure holds
    mockTimers,     \* pending 1500 ms timers that show the mock strategy
    loadingTimers,  \* pending 1500 ms timers that clear loading
    sendTimers      \* pending 1000 ms timers that show the simulated report

baseVars == <<supabase, env, ai, app_settings>>

retryVars == <<retryPc, retryI, retryLog, retryResult>>

adminVars == <<profiles, mockUsers, nextUserId, adminWrites, lastReq>>

bcVars == <<bcPc, bcBody, bcAuth, bcCreds, bcIdx, bcResults, bcLog, bcResp>>

whVars == <<whPc, whBody, whIdx, whResp, whLog, whAborted>>

fileVars == <<documents, nextDocId, providerFiles, nextFileName, uploadsDir, up, del,
              accepted, uploadsStarted>>

vfVars == <<vfQuery, vfResp>>

chatVars == <<request_logs, chReq, chResp>>

dashVars == <<connectionStatus, loading, result, isSendModalOpen, sending, sendReport,
              genPc, genConn, sendPc, sendConn, mockTimers, loadingTimers, sendTimers>>

vars == <<baseVars, retryVars, adminVars, bcVars, whVars, fileVars, vfVars, chatVars,
          dashVars>>

(***************************************************************************)
(* Environment and settings row.                                           *)
(***************************************************************************)
EnvNames == {"GEMINI_API_KEY", "WHATSAPP_TOKEN", "WHATSAPP_PHONE_NUMBER_ID", "VERIFY_TOKEN"}

SecretColumns == {"gemini_api_key", "whatsapp_token", "whatsapp_phone_number_id",
                  "verify_token", "fb_app_secret", "fb_page_token",
                  "messenger_token", "instagram_token"}

TextColumns == {"system_instruction", "marketing_instruction"}

Columns == SecretColumns \cup TextColumns

\* A settings row: exists = FALSE when the table holds no row; a column is "" when null.
EmptyRow == [c \in Columns |-> ""]

NoSettings == [exists |-> FALSE, row |-> EmptyRow]

\* supabase.from('app_settings').select(...).single(): the row, or null ("" columns,
\* exists FALSE) when there is no row or the query fails.
SelectSettings(dbOk) ==
    IF dbOk /\ app_settings.exists THEN app_settings ELSE NoSettings

(***************************************************************************)
(* initGenAI: the key of the environment first, the settings row second.   *)
(***************************************************************************)
InitGenAI(dbOk) ==
    LET envKey == env["GEMINI_API_KEY"]
        data   == SelectSettings(dbOk)
        apiKey == IF envKey = "" /\ supabase /\ data.exists /\ data.row["gemini_api_key"] # ""
                  THEN data.row["gemini_api_key"]
                  ELSE envKey
    IN  IF apiKey # "" THEN apiKey ELSE ai

(***************************************************************************)
(* callGeminiWithRetry.                                                    *)
(***************************************************************************)
DefaultRetries == 3

BackoffBaseMs == 1000

JitterMs == 500

\* Math.random() * 500 lies in [0, 500): the values the model draws.
Jitters == {0, 250, JitterMs - 1}

ErrStatuses == {400, 403, 429, 500, 503}

ErrMessages == {"API key not valid", "INVALID_ARGUMENT", "other"}

\* What one ai.models.generateContent call does: a reply, or an error thrown.
Responses ==
    {[kind |-> "ok", status |-> 200, message |-> "reply"]}
    \cup [kind : {"err"}, status : ErrStatuses, message : ErrMessages]

Pow2(n) == IF n = 0 THEN 1 ELSE IF n = 1 THEN 2 ELSE IF n = 2 THEN 4 ELSE 8

IsInvalidKeyMut(error) ==
    error.status = 400 /\ error.message = "API key not valid"

\* error.status === 400 && (message includes 'API key' || message includes 'INVALID_ARGUMENT')
IsInvalidKey(error) ==
    error.status = 400 /\ error.message \in {"API key not valid", "INVALID_ARGUMENT"}

IsTransientMut(error) == error.status \in {503, 429}

IsTransient(error) == error.status \in {503, 429, 500}

BackoffDelayMut(i, jitter) == BackoffBaseMs + jitter

\* Math.pow(2, i) * 1000 + Math.random() * 500
BackoffDelay(i, jitter) == Pow2(i) * BackoffBaseMs + jitter

InvalidKeyError == [kind |-> "err", status |-> 0, message |-> "Invalid API Key. Please update it in Settings."]

NotInitError == [kind |-> "err", status |-> 0, message |-> "AI Service not initialized. Please configure API Key."]

RetryStepMut(i, retries, r) ==
    IF r.kind = "ok" THEN "return"
    ELSE IF IsInvalidKey(r) THEN "throwInvalidKey"
    ELSE IF i < retries - 1 THEN "sleep"
    ELSE "throw"

\* One iteration of the loop of callGeminiWithRetry: what the try/catch does with
\* the outcome r of attempt i.
RetryStep(i, retries, r) ==
    IF r.kind = "ok" THEN "return"
    ELSE IF IsInvalidKey(r) THEN "throwInvalidKey"
    ELSE IF IsTransient(r) /\ i < retries - 1 THEN "sleep"
    ELSE "throw"

UndefinedValue == [kind |-> "undefined", status |-> 0, message |-> ""]

NoResult == [how |-> "none", value |-> UndefinedValue, attempt |-> -1]

\* The result of the call when iteration i ends it with step (never "sleep").
StepResult(step, i, r) ==
    IF step = "return" THEN [how |-> "returned", value |-> r, attempt |-> i]
    ELSE IF step = "throwInvalidKey" THEN [how |-> "thrown", value |-> InvalidKeyError, attempt |-> i]
    ELSE [how |-> "thrown", value |-> r, attempt |-> i]

\* The events a call leaves in its log: attempt i with what the provider answered,
\* and the sleep after attempt i with its delay.
AttemptEvent(i, r) == [ev |-> "attempt", i |-> i, ms |-> 0, resp |-> r]

SleepEvent(i, jitter) ==
    [ev |-> "sleep", i |-> i, ms |-> BackoffDelay(i, jitter), resp |-> UndefinedValue]

\* The whole loop from iteration i on, for the handlers that await the call:
\* resp[i+1] is what attempt i gets, jit[i+1] the jitter of the sleep after it.
RECURSIVE RetryLoop(_, _, _, _, _)
RetryLoop(i, retries, resp, jit, log) ==
    IF i >= retries
    THEN [log |-> log, result |-> [how |-> "returned", value |-> UndefinedValue, attempt |-> -1]]
    ELSE LET r    == resp[i + 1]
             step == RetryStep(i, retries, r)
             log1 == Append(log, AttemptEvent(i, r))
         IN  IF step = "sleep"
             THEN RetryLoop(i + 1, retries, resp, jit, Append(log1, SleepEvent(i, jit[i + 1])))
             ELSE [log |-> log1, result |-> StepResult(step, i, r)]

\* callGeminiWithRetry(modelName, params, retries) with the client handle aiNow.
CallGeminiWithRetry(aiNow, retries, resp, jit) ==
    IF aiNow = ""
    THEN [log |-> <<>>, result |-> [how |-> "thrown", value |-> NotInitError, attempt |-> -1]]
    ELSE RetryLoop(0, retries, resp, jit, <<>>)

(***************************************************************************)
(* Auth gate: requireAuth and requireAdmin.                                *)
(***************************************************************************)
\* Bearer tokens a request may carry: "" is an absent token, "bad" one the auth
\* service does not know.
Tokens == {"", "bad", "tAdmin", "tUser", "tNew"}

Uids == {"uA", "uU", "uN"}

\* supabase.auth.getUser(token): the user's id, "" when the service reports an
\* error or no user.
GetUser(token, authOk) ==
    IF ~authOk THEN ""
    ELSE IF token = "tAdmin" THEN "uA"
    ELSE IF token = "tUser" THEN "uU"
    ELSE IF token = "tNew" THEN "uN"
    ELSE ""

ProfileRoleMut(uid, dbOk) ==
    IF dbOk /\ profiles[uid] \notin {"<none>", ""} THEN profiles[uid] ELSE "user"

\* profile?.role || 'viewer', profile being the row of the user or null.
ProfileRole(uid, dbOk) ==
    IF dbOk /\ profiles[uid] \notin {"<none>", ""} THEN profiles[uid] ELSE "viewer"

RequireAuthMut(token, authOk, dbOk) ==
    IF ~supabase
    THEN [next |-> TRUE, status |-> 0, user |-> "", role |-> ""]
    ELSE LET user == GetUser(token, authOk)
         IN  IF token # "" /\ user = ""
             THEN [next |-> FALSE, status |-> 401, user |-> "", role |-> ""]
             ELSE [next |-> TRUE, status |-> 0, user |-> user,
                   role |-> IF user = "" THEN "viewer" ELSE ProfileRole(user, dbOk)]

\* requireAuth: next is TRUE when the middleware calls next(); otherwise status is
\* the status it answers. user = "" stands for an undefined req.user.
RequireAuth(token, authOk, dbOk) ==
    IF ~supabase
    THEN [next |-> TRUE, status |-> 0, user |-> "", role |-> ""]
    ELSE IF token = ""
    THEN [next |-> FALSE, status |-> 401, user |-> "", role |-> ""]
    ELSE LET user == GetUser(token, authOk)
         IN  IF user = ""
             THEN [next |-> FALSE, status |-> 401, user |-> "", role |-> ""]
             ELSE [next |-> TRUE, status |-> 0, user |-> user, role |-> ProfileRole(user, dbOk)]

RequireAdminMut(auth) == auth.user # ""

\* requireAdmin: TRUE when the middleware calls next().
RequireAdmin(auth) == ~(auth.user = "" \/ auth.role # "admin")

\* The middleware chain in front of a handler: pass is TRUE when the handler runs.
Gate(token, authOk, dbOk, adminOnly) ==
    LET auth == RequireAuth(token, authOk, dbOk)
    IN  IF ~auth.next THEN [pass |-> FALSE, status |-> auth.status, user |-> "", role |-> ""]
        ELSE IF adminOnly /\ ~RequireAdmin(auth)
        THEN [pass |-> FALSE, status |-> 403, user |-> auth.user, role |-> auth.role]
        ELSE [pass |-> TRUE, status |-> 0, user |-> auth.user, role |-> auth.role]

(***************************************************************************)
(* Settings proxy: GET and POST /api/config.                               *)
(***************************************************************************)
Mask == "********"

Undef == "<undefined>"

SecretFields == {"geminiApiKey", "whatsappToken", "whatsappPhoneNumberId", "verifyToken",
                 "fbAppSecret", "fbPageToken", "messengerToken", "instagramToken"}

TextFields == {"systemInstruction", "marketingInstruction"}

ConfigFields == SecretFields \cup TextFields

\* The column behind each field of the config payload.
ColumnOf(f) ==
    CASE f = "systemInstruction" -> "system_instruction"
      [] f = "marketingInstruction" -> "marketing_instruction"
      [] f = "geminiApiKey" -> "gemini_api_key"
      [] f = "whatsappToken" -> "whatsapp_token"
      [] f = "whatsappPhoneNumberId" -> "whatsapp_phone_number_id"
      [] f = "verifyToken" -> "verify_token"
      [] f = "fbAppSecret" -> "fb_app_secret"
      [] f = "fbPageToken" -> "fb_page_token"
      [] f = "messengerToken" -> "messenger_token"
      [] f = "instagramToken" -> "instagram_token"

\* The fields POST /api/config writes when shouldUpdate accepts them.
WrittenSecretFields == {"geminiApiKey", "whatsappToken", "whatsappPhoneNumberId",
                        "verifyToken", "fbAppSecret", "fbPageToken"}

NoConfig == [present |-> FALSE, body |-> [f \in ConfigFields |-> ""]]

ConfigResponseMut(row) ==
    [present |-> TRUE,
     body |-> [f \in ConfigFields |->
                 IF f \in TextFields \/ f = "whatsappPhoneNumberId" THEN row[ColumnOf(f)]
                 ELSE IF row[ColumnOf(f)] # "" THEN Mask ELSE ""]]

\* The config object GET /api/config answers for a row.
ConfigResponse(row) ==
    [present |-> TRUE,
     body |-> [f \in ConfigFields |->
                 IF f \in TextFields THEN row[ColumnOf(f)]
                 ELSE IF row[ColumnOf(f)] # "" THEN Mask ELSE ""]]

\* const shouldUpdate = (val) => val && val !== '********'
ShouldUpdate(val) == val \notin {Undef, "", Mask}

\* updateData without id and updated_at: for each column the value to write, Undef
\* when the column is left out of the upsert.
UpdateData(body) ==
    [c \in Columns |->
        LET fs == {f \in ConfigFields : ColumnOf(f) = c}
            f  == CHOOSE x \in fs : TRUE
        IN  IF f \in TextFields THEN body[f]
            ELSE IF f \in WrittenSecretFields /\ ShouldUpdate(body[f]) THEN body[f]
            ELSE Undef]

\* supabase.from('app_settings').upsert(updateData): the row after the upsert.
Upsert(updateData) ==
    [exists |-> TRUE,
     row |-> [c \in Columns |->
                IF updateData[c] # Undef THEN updateData[c]
                ELSE IF app_settings.exists THEN app_settings.row[c] ELSE ""]]

EmptyBody == [f \in ConfigFields |-> Undef]

\* The request bodies the model sends to POST /api/config: at most one field set.
ConfigBodies ==
    {EmptyBody}
    \cup {[EmptyBody EXCEPT !["geminiApiKey"] = v] : v \in {"", Mask, "s1"}}
    \cup {[EmptyBody EXCEPT ![f] = "s2"] : f \in SecretFields}
    \cup {[EmptyBody EXCEPT ![f] = v] : f \in TextFields, v \in {"", "p2"}}

(***************************************************************************)
(* The requests behind the auth gate, as answered.                         *)
(***************************************************************************)
\* stage: "none" before any request, "handler" after the middleware chain called
\* next(), "answered" once the response is sent. ran tells whether the handler ran.
NoRequest ==
    [stage |-> "none", ep |-> "none", token |-> "", status |-> 0, user |-> "", role |-> "",
     ran |-> FALSE, cfg |-> NoConfig]

\* A request the middleware chain rejected with gate.status: the handler does not run.
Rejected(ep, token, gate) ==
    [stage |-> "answered", ep |-> ep, token |-> token, status |-> gate.status,
     user |-> gate.user, role |-> gate.role, ran |-> FALSE, cfg |-> NoConfig]

\* A request the middleware chain let through, with req.user and req.user.role.
Passed(ep, token, gate) ==
    [stage |-> "handler", ep |-> ep, token |-> token, status |-> 0,
     user |-> gate.user, role |-> gate.role, ran |-> FALSE, cfg |-> NoConfig]

\* The request once its handler has run and answered status.
Handled(req, status) == [req EXCEPT !.stage = "answered", !.status = status, !.ran = TRUE]

InitialUsers ==
    <<[id |-> 1, firstName |-> "Admin", role |-> "admin", status |-> "active"],
      [id |-> 2, firstName |-> "Standard", role |-> "user", status |-> "active"]>>

\* mockUsers.findIndex(u => u.id === id): 0 stands for -1.
FindIndex(id) ==
    IF \E k \in 1..Len(mockUsers) : mockUsers[k].id = id
    THEN CHOOSE k \in 1..Len(mockUsers) :
            /\ mockUsers[k].id = id
            /\ \A j \in 1..(k - 1) : mockUsers[j].id # id
    ELSE 0

\* mockUsers.splice(index, 1)
Splice(index) ==
    [k \in 1..(Len(mockUsers) - 1) |-> IF k < index THEN mockUsers[k] ELSE mockUsers[k + 1]]

(***************************************************************************)
(* Broadcast composer: POST /api/whatsapp/broadcast.                       *)
(***************************************************************************)
Digits == {"0", "1", "2", "3", "4", "5", "6", "7", "8", "9"}

IsDigit(ch) == ch \in Digits

\* cleanPhoneNumber: phone.replace(/\D/g, ''), a string being its characters.
CleanPhoneNumber(chars) == SelectSeq(chars, IsDigit)

\* The entries a recipient list may hold: strings, and a JSON number, on which
\* phone.replace is not a function.
RawNumbers ==
    {[isString |-> TRUE, chars |-> <<"+", "3", "3", " ", "6">>],
     [isString |-> TRUE, chars |-> <<"2", "1", "-", "7">>],
     [isString |-> FALSE, chars |-> <<"4", "2">>]}

\* Before requireAuth has run for a request.
NoAuth == [next |-> FALSE, status |-> 0, user |-> "", role |-> ""]

NoBroadcastBody == [hasNumbers |-> FALSE, numbers |-> <<>>, type |-> "text"]

NoCreds == [phoneNumberId |-> "", whatsappToken |-> ""]

NoResults == [total |-> 0, success |-> 0, failed |-> 0, errors |-> <<>>]

NoResponse == [status |-> 0, report |-> NoResults]

\* Lines 673-680: the environment's values, replaced by the settings row's when the
\* database client exists and the row holds them.
BroadcastCreds(dbOk) ==
    LET data == SelectSettings(dbOk)
    IN  [phoneNumberId |->
            IF supabase /\ data.row["whatsapp_phone_number_id"] # ""
            THEN data.row["whatsapp_phone_number_id"] ELSE env["WHATSAPP_PHONE_NUMBER_ID"],
         whatsappToken |->
            IF supabase /\ data.row["whatsapp_token"] # ""
            THEN data.row["whatsapp_token"] ELSE env["WHATSAPP_TOKEN"]]

\* What the axios.post of one recipient does: resolve, reject with the provider's
\* error object (err.response.data.error), or reject without a response.
SendOutcomes ==
    {[ok |-> TRUE, hasError |-> FALSE, code |-> "", message |-> ""],
     [ok |-> FALSE, hasError |-> TRUE, code |-> "131047", message |-> "Re-engagement message"],
     [ok |-> FALSE, hasError |-> TRUE, code |-> "100", message |-> "Invalid parameter"],
     [ok |-> FALSE, hasError |-> FALSE, code |-> "", message |-> "Network Error"]}

\* results.success++
OnSendSuccess(results) == [results EXCEPT !.success = @ + 1]

OnSendFailureMut(results, number, out) == [results EXCEPT !.failed = @ + 1]

\* The catch block of the loop: results.failed++ and results.errors.push(...).
OnSendFailure(results, number, out) ==
    [results EXCEPT
        !.failed = @ + 1,
        !.errors = Append(@, [number |-> number,
                              code |-> IF out.hasError /\ out.code # "" THEN out.code ELSE "UNKNOWN",
                              message |-> out.message,
                              is24hWindowError |-> out.hasError /\ out.code = "131047"])]

(***************************************************************************)
(* Messaging webhook: POST /webhook and the WhatsApp helper functions.     *)
(***************************************************************************)
NoWebhookBody == [object |-> "", hasMessages |-> FALSE, messages |-> <<>>]

MessageTypes == {"text", "audio", "image", "sticker"}

MB == 1024 * 1024

AudioMaxBytes == 20 * MB

ImageMaxBytes == 10 * MB

\* What the three requests of downloadWhatsAppMedia meet: the media URL lookup, the
\* HEAD request with its content-length header (absent: hasLength FALSE), the GET.
MediaCases ==
    {[urlOk |-> FALSE, hasLength |-> TRUE, size |-> 5 * MB, getOk |-> TRUE],
     [urlOk |-> TRUE, hasLength |-> TRUE, size |-> 5 * MB, getOk |-> TRUE],
     [urlOk |-> TRUE, hasLength |-> TRUE, size |-> 5 * MB, getOk |-> FALSE],
     [urlOk |-> TRUE, hasLength |-> TRUE, size |-> 15 * MB, getOk |-> TRUE],
     [urlOk |-> TRUE, hasLength |-> TRUE, size |-> 25 * MB, getOk |-> TRUE],
     [urlOk |-> TRUE, hasLength |-> FALSE, size |-> 25 * MB, getOk |-> TRUE]}

\* downloadWhatsAppMedia(mediaId, maxSizeBytes): ok when it returns the media;
\* fetched when the GET of the media body was made.
DownloadWhatsAppMedia(media, maxSizeBytes) ==
    LET fileSize == IF media.hasLength THEN media.size ELSE 0
    IN  IF env["WHATSAPP_TOKEN"] = "" THEN [ok |-> FALSE, fetched |-> FALSE]
        ELSE IF ~media.urlOk THEN [ok |-> FALSE, fetched |-> FALSE]
        ELSE IF fileSize > maxSizeBytes THEN [ok |-> FALSE, fetched |-> FALSE]
        ELSE [ok |-> media.getOk, fetched |-> TRUE]

\* One call the handler makes for message msg: ok when it did not throw, sent when
\* an HTTP request left the server (for a download: the GET of the media body);
\* tooLarge, on a download, when the referenced media exceeds the ceiling.
Call(ev, msg, ok, sent) ==
    [ev |-> ev, msg |-> msg, ok |-> ok, sent |-> sent, tooLarge |-> FALSE]

\* markMessageAsRead and sendWhatsAppReaction: nothing without a token, and a
\* failed request is logged, never thrown.
Quiet(ev, msg, httpOk) == Call(ev, msg, TRUE, env["WHATSAPP_TOKEN"] # "" /\ httpOk)

\* sendWhatsAppMessage: throws without a token or when the request fails.
Send(ev, msg, httpOk) ==
    Call(ev, msg, env["WHATSAPP_TOKEN"] # "" /\ httpOk, env["WHATSAPP_TOKEN"] # "")

\* The provider's answers to the attempts of one callGeminiWithRetry call.
ModelScripts ==
    LET ok  == [kind |-> "ok", status |-> 200, message |-> "reply"]
        e(st, msg) == [kind |-> "err", status |-> st, message |-> msg]
    IN  {<<ok, ok, ok>>,
         <<e(503, "other"), ok, ok>>,
         <<e(503, "other"), e(429, "other"), e(500, "other")>>,
         <<e(400, "API key not valid"), ok, ok>>}

AnyMedia == CHOOSE m \in MediaCases : m.urlOk /\ m.getOk /\ m.size = 5 * MB

\* The outcomes of the external calls of one message's processing, for the calls a
\* message of the type makes: receiptsOk for the read receipt and the reaction,
\* media for the download, script for the model, replyOk and fallbackOk for the
\* sends.
MessageOutcomes(type) ==
    IF type \in {"audio", "image"}
    THEN [receiptsOk : BOOLEAN, media : MediaCases, script : ModelScripts,
          replyOk : BOOLEAN, fallbackOk : BOOLEAN]
    ELSE IF type = "text"
    THEN [receiptsOk : BOOLEAN, media : {AnyMedia}, script : ModelScripts,
          replyOk : BOOLEAN, fallbackOk : {TRUE}]
    ELSE [receiptsOk : {TRUE}, media : {AnyMedia}, script : {CHOOSE sc \in ModelScripts : sc[1].kind = "ok"},
          replyOk : BOOLEAN, fallbackOk : {TRUE}]

NoJitter == [k \in 1..DefaultRetries |-> 0]

ModelReturned(aiNow, o) ==
    CallGeminiWithRetry(aiNow, DefaultRetries, o.script, NoJitter).result.how = "returned"

\* Lines 834-843: a text message. Nothing is caught here: a throw of the model call
\* or of the reply send reaches the outer catch (abort).
ProcessText(msg, aiNow, o) ==
    LET read  == Quiet("read", msg, o.receiptsOk)
        model == Call("model", msg, ModelReturned(aiNow, o), TRUE)
        reply == Send("reply", msg, o.replyOk)
    IN  IF ~model.ok THEN [calls |-> <<read, model>>, abort |-> TRUE]
        ELSE [calls |-> <<read, model, reply>>, abort |-> ~reply.ok]

ProcessMediaMut(msg, aiNow, o, maxSizeBytes) ==
    LET read     == Quiet("read", msg, o.receiptsOk)
        react    == Quiet("reaction", msg, o.receiptsOk)
        dl       == DownloadWhatsAppMedia(o.media, maxSizeBytes)
        download == [Call("download", msg, dl.ok, dl.fetched)
                        EXCEPT !.tooLarge = o.media.size > maxSizeBytes]
        model    == Call("model", msg, ModelReturned(aiNow, o), TRUE)
        reply    == Send("reply", msg, o.replyOk)
        fallback == Send("fallback", msg, o.fallbackOk)
        tried    == IF ~download.ok THEN <<read, react, download>>
                    ELSE IF ~model.ok THEN <<read, react, download, model>>
                    ELSE <<read, react, download, model, reply>>
    IN  IF ~read.sent THEN [calls |-> <<read>>, abort |-> TRUE]
        ELSE IF tried[Len(tried)].ok
        THEN [calls |-> tried, abort |-> FALSE]
        ELSE [calls |-> Append(tried, fallback), abort |-> ~fallback.ok]

\* Lines 844-889: an audio or image message. The download, the model call and the
\* reply are inside a try whose catch sends the fallback text; a throw of that send
\* reaches the outer catch.
ProcessMedia(msg, aiNow, o, maxSizeBytes) ==
    LET read     == Quiet("read", msg, o.receiptsOk)
        react    == Quiet("reaction", msg, o.receiptsOk)
        dl       == DownloadWhatsAppMedia(o.media, maxSizeBytes)
        download == [Call("download", msg, dl.ok, dl.fetched)
                        EXCEPT !.tooLarge = o.media.size > maxSizeBytes]
        model    == Call("model", msg, ModelReturned(aiNow, o), TRUE)
        reply    == Send("reply", msg, o.replyOk)
        fallback == Send("fallback", msg, o.fallbackOk)
        tried    == IF ~download.ok THEN <<read, react, download>>
                    ELSE IF ~model.ok THEN <<read, react, download, model>>
                    ELSE <<read, react, download, model, reply>>
    IN  IF tried[Len(tried)].ok
        THEN [calls |-> tried, abort |-> FALSE]
        ELSE [calls |-> Append(tried, fallback), abort |-> ~fallback.ok]

\* Lines 808-889: the body of the loop for one message, with the client handle aiNow
\* (after the re-initialisation of line 809).
ProcessMessage(m, msg, aiNow, o) ==
    IF aiNow = ""
    THEN LET notice == Send("notice", msg, o.replyOk)
         IN  [calls |-> <<notice>>, abort |-> ~notice.ok]
    ELSE IF m.type = "text" THEN ProcessText(msg, aiNow, o)
    ELSE IF m.type = "audio" THEN ProcessMedia(msg, aiNow, o, AudioMaxBytes)
    ELSE IF m.type = "image" THEN ProcessMedia(msg, aiNow, o, ImageMaxBytes)
    ELSE [calls |-> <<>>, abort |-> FALSE]

WebhookStatusMut(body) == IF body.object = "page" THEN 200 ELSE 404

\* Lines 800-801 and 894-896: the status POST /webhook answers.
WebhookStatus(body) == IF body.object = "whatsapp_business_account" THEN 200 ELSE 404

(***************************************************************************)
(* Chat relay: POST /api/chat and the request log.                         *)
(***************************************************************************)
NoChatRequest == [kind |-> "none", message |-> Undef, user |-> ""]

NoChatResponse == [status |-> 0, text |-> ""]

\* req.body of POST /api/chat: a text message, an audio clip, an image with or
\* without a caption.
ChatBodies ==
    {[kind |-> "text", message |-> "q1"], [kind |-> "audio", message |-> Undef],
     [kind |-> "image", message |-> "q1"], [kind |-> "image", message |-> Undef]}

\* Line 775: the query_text of the logged row; the concatenation is kept as a pair.
QueryText(body) ==
    IF body.kind = "audio" THEN <<"[Audio Message]">>
    ELSE IF body.kind = "image" THEN <<"[Image Message] ", body.message>>
    ELSE <<body.message>>

\* Lines 773-779: the row POST /api/chat inserts.
ChatLogRow(body, user, text) ==
    [channel |-> "web", query_text |-> QueryText(body), response_text |-> text,
     is_success |-> TRUE, user_id |-> user]

(***************************************************************************)
(* Webhook subscription handshake: GET /webhook.                           *)
(***************************************************************************)
NoQuery == [mode |-> Undef, verify_token |-> Undef, challenge |-> Undef]

NoVerifyResponse == [status |-> 0, body |-> Undef]

\* process.env[name]: undefined when the variable is not set.
ProcessEnv(name) == IF env[name] = "" THEN Undef ELSE env[name]

VerifyAcceptsMut(query) == query.verify_token = ProcessEnv("VERIFY_TOKEN")

\* Line 791: the condition of the handshake, both comparisons strict.
VerifyAccepts(query) ==
    query.mode = "subscribe" /\ query.verify_token = ProcessEnv("VERIFY_TOKEN")

\* Lines 791-795: the challenge is sent back with 200, or 403 with its status text.
VerifyResponse(query) ==
    IF VerifyAccepts(query) THEN [status |-> 200, body |-> query.challenge]
    ELSE [status |-> 403, body |-> "Forbidden"]

(***************************************************************************)
(* Document ingest: POST /api/upload, DELETE /api/files/:id, GET           *)
(* /api/files and waitForFileActive.                                       *)
(***************************************************************************)
\* Requests of POST /api/upload that can be in flight together.
UploadSlots == {1, 2}

\* SHA-256 digests of the uploaded contents.
Hashes == {"H1", "H2"}

\* The digests the next upload can have: the first content uploaded is the one
\* called H1; a later one is the same content or another.
FreshHashes(started) == IF started = 0 THEN {"H1"} ELSE Hashes

NoDoc == [id |-> 0, hash |-> "", google_name |-> 0]

NoPoll == [at |-> 0, state |-> "none"]

NoUpload ==
    [pc |-> "idle", hash |-> "", file |-> 0, checks |-> 0, status |-> 0, doc |-> NoDoc,
     prior |-> FALSE, insertError |-> "", rollback |-> "none", error |-> "",
     poll |-> NoPoll]

NoDelete ==
    [pc |-> "idle", token |-> "", id |-> 0, doc |-> NoDoc, tried |-> FALSE, status |-> 0]

PollLimit == 30

\* What the status checks of one waitForFileActive call meet: PROCESSING until check
\* number at, which reports state (ACTIVE, FAILED, or ERROR when ai.files.get throws).
PollScripts ==
    {[at |-> 1, state |-> "ACTIVE"], [at |-> PollLimit, state |-> "ACTIVE"],
     [at |-> 2, state |-> "FAILED"], [at |-> 2, state |-> "ERROR"],
     [at |-> PollLimit + 1, state |-> "ACTIVE"]}

RECURSIVE PollLoopMut(_, _)
RECURSIVE PollLoop(_, _)
PollLoopMut(i, script) ==
    IF i > PollLimit THEN [ok |-> FALSE, checks |-> i, error |-> "File processing timed out."]
    ELSE IF i + 1 = script.at /\ script.state = "ERROR"
    THEN [ok |-> FALSE, checks |-> i + 1, error |-> "files.get failed"]
    ELSE IF i + 1 = script.at /\ script.state = "ACTIVE"
    THEN [ok |-> TRUE, checks |-> i + 1, error |-> ""]
    ELSE IF i + 1 = script.at /\ script.state = "FAILED"
    THEN [ok |-> FALSE, checks |-> i + 1, error |-> "File processing failed on Google side."]
    ELSE PollLoopMut(i + 1, script)

\* The for loop of waitForFileActive from check i (0-based) on.
PollLoop(i, script) ==
    IF i >= PollLimit THEN [ok |-> FALSE, checks |-> i, error |-> "File processing timed out."]
    ELSE IF i + 1 = script.at /\ script.state = "ERROR"
    THEN [ok |-> FALSE, checks |-> i + 1, error |-> "files.get failed"]
    ELSE IF i + 1 = script.at /\ script.state = "ACTIVE"
    THEN [ok |-> TRUE, checks |-> i + 1, error |-> ""]
    ELSE IF i + 1 = script.at /\ script.state = "FAILED"
    THEN [ok |-> FALSE, checks |-> i + 1, error |-> "File processing failed on Google side."]
    ELSE PollLoop(i + 1, script)

WaitForFileActive(script) == PollLoop(0, script)

\* The messages of the errors the upload handler makes itself (lines 434, 469).
NotInitializedMessage == "Gemini AI not initialized (check API Key)"

InvalidFormatMessage == "Invalid response format from Gemini File API. Check logs."

\* The message of the error the insert of line 489 returns (the one the catch block
\* has a hint for).
InsertErrors == {"Could not find the 'google_name' column"}

RollbackThrowsMut(insertError, deleted) ==
    IF deleted THEN insertError ELSE "Rollback delete failed"

\* Lines 494-495: the failure of the compensating delete is caught and logged; what
\* is thrown is the error of the insert.
RollbackThrows(insertError, deleted) == insertError

\* supabase....select('*').eq(column, value).single(): the row when the query
\* succeeds and matches exactly one row, null otherwise.
Single(rows, dbOk) ==
    IF dbOk /\ Cardinality(rows) = 1 THEN CHOOSE d \in rows : TRUE ELSE NoDoc

\* GET /api/files: the rows listed.
ListFiles(dbOk) == IF ~supabase THEN {} ELSE IF dbOk THEN documents ELSE {}

(***************************************************************************)
(* The state of each part of the server before it has handled anything.    *)
(***************************************************************************)
InitialProfiles == [u \in Uids |-> IF u = "uA" THEN "admin" ELSE IF u = "uU" THEN "user" ELSE "<none>"]

RetryIdle ==
    /\ retryPc = "idle"
    /\ retryI = 0
    /\ retryLog = <<>>
    /\ retryResult = NoResult

AdminIdle ==
    /\ profiles = InitialProfiles
    /\ mockUsers = InitialUsers
    /\ nextUserId = 3
    /\ adminWrites = 0
    /\ lastReq = NoRequest

BroadcastIdle ==
    /\ bcPc = "idle"
    /\ bcBody = NoBroadcastBody
    /\ bcAuth = NoAuth
    /\ bcCreds = NoCreds
    /\ bcIdx = 0
    /\ bcResults = NoResults
    /\ bcLog = <<>>
    /\ bcResp = NoResponse

WebhookIdle ==
    /\ whPc = "idle"
    /\ whBody = NoWebhookBody
    /\ whIdx = 0
    /\ whResp = 0
    /\ whLog = <<>>
    /\ whAborted = FALSE

FilesIdle ==
    /\ documents = {}
    /\ nextDocId = 1
    /\ providerFiles = {}
    /\ nextFileName = 1
    /\ uploadsDir = {}
    /\ up = [r \in UploadSlots |-> NoUpload]
    /\ del = NoDelete
    /\ accepted = {}
    /\ uploadsStarted = 0

VerifyIdle ==
    /\ vfQuery = NoQuery
    /\ vfResp = NoVerifyResponse

ChatIdle ==
    /\ request_logs = <<>>
    /\ chReq = NoChatRequest
    /\ chResp = NoChatResponse

\* The state of the StrategyHub component when it is mounted (useState defaults).
DashboardIdle ==
    /\ connectionStatus = "unknown"
    /\ loading = FALSE
    /\ result = "null"
    /\ isSendModalOpen = FALSE
    /\ sending = FALSE
    /\ sendReport = "null"
    /\ genPc = "idle"
    /\ genConn = "unknown"
    /\ sendPc = "idle"
    /\ sendConn = "unknown"
    /\ mockTimers = 0
    /\ loadingTimers = 0
    /\ sendTimers = 0

\* What the steps of one part of the server leave unchanged.
retryOthers == <<adminVars, bcVars, whVars, fileVars, vfVars, chatVars, dashVars>>

adminOthers == <<retryVars, bcVars, whVars, fileVars, vfVars, chatVars, dashVars>>

bcOthers == <<retryVars, adminVars, whVars, fileVars, vfVars, chatVars, dashVars>>

whOthers == <<retryVars, adminVars, bcVars, fileVars, vfVars, chatVars, dashVars>>

fileOthers == <<retryVars, adminVars, bcVars, whVars, vfVars, chatVars, dashVars>>

vfOthers == <<retryVars, adminVars, bcVars, whVars, fileVars, chatVars, dashVars>>

chatOthers == <<retryVars, adminVars, bcVars, whVars, fileVars, vfVars, dashVars>>

dashOthers == <<retryVars, adminVars, bcVars, whVars, fileVars, vfVars, chatVars>>

(***************************************************************************)
(* Specification of the retry wrapper: completion calls with the default   *)
(* bound, one loop iteration per step, the provider answering each attempt *)
(* freely.                                                                 *)
(***************************************************************************)
Keys == {"", "k1"}

RetryInit ==
    /\ supabase \in BOOLEAN
    /\ env \in {[n \in EnvNames |-> ""],
                [n \in EnvNames |-> IF n = "GEMINI_API_KEY" THEN "k0" ELSE ""]}
    /\ ai = ""
    /\ app_settings \in {NoSettings} \cup
            {[exists |-> TRUE, row |-> [EmptyRow EXCEPT !["gemini_api_key"] = k]] : k \in Keys}
    /\ RetryIdle
    /\ AdminIdle
    /\ BroadcastIdle
    /\ WebhookIdle
    /\ FilesIdle
    /\ VerifyIdle
    /\ ChatIdle
    /\ DashboardIdle

\* Lines 132-136: the call starts; an undefined client is re-initialised first.
CallStart ==
    /\ retryPc \in {"idle", "done"}
    /\ \E dbOk \in BOOLEAN :
        LET aiNow == IF ai = "" THEN InitGenAI(dbOk) ELSE ai
        IN  /\ ai' = aiNow
            /\ retryLog' = <<>>
            /\ retryI' = 0
            /\ IF aiNow = ""
               THEN /\ retryPc' = "done"
                    /\ retryResult' = [how |-> "thrown", value |-> NotInitError, attempt |-> -1]
               ELSE /\ retryPc' = "attempting"
                    /\ retryResult' = NoResult
    /\ UNCHANGED <<supabase, env, app_settings, retryOthers>>

\* Lines 138-161: attempt retryI and its catch block.
Attempt ==
    /\ retryPc = "attempting"
    /\ retryI < DefaultRetries
    /\ \E r \in Responses, jitter \in Jitters :
        LET step == RetryStep(retryI, DefaultRetries, r)
            log1 == Append(retryLog, AttemptEvent(retryI, r))
        IN  IF step = "sleep"
            THEN /\ retryLog' = Append(log1, SleepEvent(retryI, jitter))
                 /\ retryPc' = "sleeping"
                 /\ UNCHANGED retryResult
            ELSE /\ retryLog' = log1
                 /\ retryPc' = "done"
                 /\ retryResult' = StepResult(step, retryI, r)
    /\ UNCHANGED <<supabase, env, ai, app_settings, retryI, retryOthers>>

\* Lines 157-158: the sleep is over, the loop continues with the next iteration.
WakeUp ==
    /\ retryPc = "sleeping"
    /\ retryPc' = "attempting"
    /\ retryI' = retryI + 1
    /\ UNCHANGED <<supabase, env, ai, app_settings, retryLog, retryResult, retryOthers>>

RetryNext == CallStart \/ Attempt \/ WakeUp

SpecRetry == RetryInit /\ [][RetryNext]_vars

(***************************************************************************)
(* Properties of the retry wrapper.                                        *)
(***************************************************************************)
AttemptIdx == {k \in 1..Len(retryLog) : retryLog[k].ev = "attempt"}

SleepIdx == {k \in 1..Len(retryLog) : retryLog[k].ev = "sleep"}

TransientStatus(r) == r.kind = "err" /\ r.status \in {503, 429, 500}

InvalidKeyCondition(r) ==
    r.kind = "err" /\ r.status = 400 /\ r.message \in {"API key not valid", "INVALID_ARGUMENT"}

AllAttemptsTransient ==
    /\ retryPc = "done"
    /\ AttemptIdx # {}
    /\ \A k \in AttemptIdx : TransientStatus(retryLog[k].resp)

\* C2: a finished call whose every attempt failed with a transient error (503, 429,
\* 500) made exactly 3 attempts, slept once between consecutive attempts with a
\* delay that does not decrease from the first gap to the second, and threw the
\* error of the last (third) attempt.
C2_TransientExhaustsBound ==
    AllAttemptsTransient =>
        /\ Cardinality(AttemptIdx) = 3
        /\ Len(retryLog) = 5
        /\ AttemptIdx = {1, 3, 5}
        /\ SleepIdx = {2, 4}
        /\ retryLog[2].ms <= retryLog[4].ms
        /\ retryResult.how = "thrown"
        /\ retryResult.attempt = 2
        /\ retryResult.value = retryLog[5].resp

C2_Witness ==
    /\ AllAttemptsTransient
    /\ Len(retryLog) = 5
    /\ retryLog[1].resp.status = 503
    /\ retryLog[3].resp.status = 429
    /\ retryLog[5].resp.status = 500
    /\ retryLog[2].ms = 1499
    /\ retryLog[4].ms = 2000
    /\ retryResult.value.status = 500

\* C3: an attempt on which the provider reports the invalid-API-key condition
\* (status 400 with an 'API key' or 'INVALID_ARGUMENT' message) is the last event of
\* its call: no sleep and no attempt follows it, and the call has failed with the
\* credential error.
C3_InvalidKeyFailsAtOnce ==
    \A k \in AttemptIdx :
        InvalidKeyCondition(retryLog[k].resp) =>
            /\ k = Len(retryLog)
            /\ retryPc = "done"
            /\ retryResult.how = "thrown"
            /\ retryResult.value = InvalidKeyError
            /\ retryResult.attempt = retryLog[k].i

C3_Witness ==
    /\ retryPc = "done"
    /\ Len(retryLog) = 3
    /\ TransientStatus(retryLog[1].resp)
    /\ InvalidKeyCondition(retryLog[3].resp)
    /\ retryResult.value = InvalidKeyError

(***************************************************************************)
(* Specification of the endpoints behind the auth gate: user management    *)
(* and settings. A request takes two steps: the middleware chain           *)
(* (requireAuth, then requireAdmin on the admin-only routes), then, when   *)
(* the chain called next(), the route's handler.                           *)
(***************************************************************************)
MaxAdminWrites == 1

FullRow == [c \in Columns |-> IF c \in TextColumns THEN "p1" ELSE "s1"]

PartialRow ==
    [EmptyRow EXCEPT !["gemini_api_key"] = "s2", !["verify_token"] = "s1",
                     !["messenger_token"] = "s1", !["system_instruction"] = "p1"]

AdminInit ==
    /\ supabase \in BOOLEAN
    /\ env = [n \in EnvNames |-> ""]
    /\ app_settings \in {NoSettings, [exists |-> TRUE, row |-> PartialRow],
                         [exists |-> TRUE, row |-> FullRow]}
    /\ ai = IF supabase /\ app_settings.exists THEN app_settings.row["gemini_api_key"] ELSE ""
    /\ RetryIdle
    /\ AdminIdle
    /\ BroadcastIdle
    /\ WebhookIdle
    /\ FilesIdle
    /\ VerifyIdle
    /\ ChatIdle
    /\ DashboardIdle

Endpoints == {"GET /api/users", "POST /api/users", "PUT /api/users/:id", "DELETE /api/users/:id",
              "GET /api/config", "POST /api/config"}

\* The routes registered with requireAdmin after requireAuth.
AdminOnly == {"GET /api/users", "POST /api/users", "PUT /api/users/:id", "DELETE /api/users/:id",
              "POST /api/config"}

UserCreateBodies == [id : {0, 1}, firstName : {"New"}, role : {"admin"}]

UserUpdateBodies ==
    {[firstName |-> "Renamed", role |-> "", status |-> ""],
     [firstName |-> "", role |-> "viewer", status |-> ""],
     [firstName |-> "", role |-> "", status |-> "suspended"],
     [firstName |-> "", role |-> "", status |-> ""]}

UserIds == {1, 2, 9}

\* The external service that fails during a request's middleware chain, if any.
Outages == {"none", "auth", "db"}

\* A request arrives and goes through the middleware chain of its route.
Middleware ==
    /\ lastReq.stage # "handler"
    /\ \E ep \in Endpoints, token \in Tokens, outage \in Outages :
        LET gate == Gate(token, outage # "auth", outage # "db", ep \in AdminOnly)
        IN  lastReq' = IF gate.pass THEN Passed(ep, token, gate) ELSE Rejected(ep, token, gate)
    /\ UNCHANGED <<baseVars, profiles, mockUsers, nextUserId, adminWrites, adminOthers>>

\* GET /api/users
GetUsers ==
    /\ lastReq.stage = "handler"
    /\ lastReq.ep = "GET /api/users"
    /\ lastReq' = Handled(lastReq, 200)
    /\ UNCHANGED <<baseVars, profiles, mockUsers, nextUserId, adminWrites, adminOthers>>

\* POST /api/users: { id: Date.now(), ...req.body, status: 'invited' } is pushed;
\* body.id = 0 and "" stand for fields the body does not carry.
PostUsers ==
    /\ lastReq.stage = "handler"
    /\ lastReq.ep = "POST /api/users"
    /\ adminWrites < MaxAdminWrites
    /\ \E body \in UserCreateBodies :
        LET newUser == [id |-> IF body.id # 0 THEN body.id ELSE nextUserId,
                        firstName |-> body.firstName, role |-> body.role, status |-> "invited"]
        IN  mockUsers' = Append(mockUsers, newUser)
    /\ nextUserId' = nextUserId + 1
    /\ adminWrites' = adminWrites + 1
    /\ lastReq' = Handled(lastReq, 201)
    /\ UNCHANGED <<baseVars, profiles, adminOthers>>

\* PUT /api/users/:id
PutUser ==
    /\ lastReq.stage = "handler"
    /\ lastReq.ep = "PUT /api/users/:id"
    /\ \E id \in UserIds, body \in UserUpdateBodies :
        LET index == FindIndex(id)
        IN  IF index = 0
            THEN /\ lastReq' = Handled(lastReq, 404)
                 /\ UNCHANGED <<mockUsers, adminWrites>>
            ELSE LET old == mockUsers[index]
                     updatedUser ==
                        [id |-> old.id,
                         firstName |-> IF body.firstName # "" THEN body.firstName ELSE old.firstName,
                         role |-> IF body.role # "" THEN body.role ELSE old.role,
                         status |-> IF body.status # "" THEN body.status ELSE old.status]
                 IN  /\ adminWrites < MaxAdminWrites
                     /\ mockUsers' = [mockUsers EXCEPT ![index] = updatedUser]
                     /\ adminWrites' = adminWrites + 1
                     /\ lastReq' = Handled(lastReq, 200)
    /\ UNCHANGED <<baseVars, profiles, nextUserId, adminOthers>>

\* DELETE /api/users/:id
DeleteUser ==
    /\ lastReq.stage = "handler"
    /\ lastReq.ep = "DELETE /api/users/:id"
    /\ \E id \in UserIds :
        LET index == FindIndex(id)
        IN  IF index = 0
            THEN /\ lastReq' = Handled(lastReq, 404)
                 /\ UNCHANGED <<mockUsers, adminWrites>>
            ELSE /\ adminWrites < MaxAdminWrites
                 /\ mockUsers' = Splice(index)
                 /\ adminWrites' = adminWrites + 1
                 /\ lastReq' = Handled(lastReq, 200)
    /\ UNCHANGED <<baseVars, profiles, nextUserId, adminOthers>>

\* GET /api/config: without a database client supabase.from throws inside the try
\* and the catch answers 500; with no row or a failed query it answers {}.
GetConfig ==
    /\ lastReq.stage = "handler"
    /\ lastReq.ep = "GET /api/config"
    /\ \E readOk \in BOOLEAN :
        LET data == SelectSettings(readOk)
        IN  lastReq' =
                IF ~supabase THEN Handled(lastReq, 500)
                ELSE IF ~data.exists THEN Handled(lastReq, 200)
                ELSE [Handled(lastReq, 200) EXCEPT !.cfg = ConfigResponse(data.row)]
    /\ UNCHANGED <<baseVars, profiles, mockUsers, nextUserId, adminWrites, adminOthers>>

\* POST /api/config: the upsert, then the refresh of the completion client when the
\* request wrote a key. The body is one of ConfigBodies or the payload GET
\* /api/config answers for the stored row, sent back as it is; cfg keeps it.
PostConfig ==
    /\ lastReq.stage = "handler"
    /\ lastReq.ep = "POST /api/config"
    /\ \E writeOk \in BOOLEAN,
          body \in ConfigBodies \cup {ConfigResponse(app_settings.row).body} :
        LET updateData == UpdateData(body)
            sent       == [present |-> TRUE, body |-> body]
        IN  IF ~writeOk
            THEN /\ lastReq' = [Handled(lastReq, 500) EXCEPT !.cfg = sent]
                 /\ UNCHANGED <<ai, app_settings, adminWrites>>
            ELSE /\ adminWrites < MaxAdminWrites
                 /\ app_settings' = Upsert(updateData)
                 /\ ai' = IF updateData["gemini_api_key"] \notin {Undef, ""}
                          THEN updateData["gemini_api_key"] ELSE ai
                 /\ adminWrites' = adminWrites + 1
                 /\ lastReq' = [Handled(lastReq, 200) EXCEPT !.cfg = sent]
    /\ UNCHANGED <<supabase, env, profiles, mockUsers, nextUserId, adminOthers>>

AdminNext ==
    \/ Middleware
    \/ GetUsers
    \/ PostUsers
    \/ PutUser
    \/ DeleteUser
    \/ GetConfig
    \/ PostConfig

SpecAdmin == AdminInit /\ [][AdminNext]_vars

(***************************************************************************)
(* Properties of the auth gate and of the settings proxy.                  *)
(***************************************************************************)
\* The request carried no token, or the auth service resolved it to no user.
Unauthenticated(req) == req.stage # "none" /\ (req.token = "" \/ req.user = "")

GateRejects401(req) == req.stage = "answered" /\ req.status = 401 /\ ~req.ran

NoProfileMeansViewer(req) ==
    (req.stage # "none" /\ req.user # "" /\ profiles[req.user] = "<none>") => req.role = "viewer"

\* C8 as claimed: every request without a token, or whose token resolves to no user,
\* is answered 401 and its handler never runs; a user without a profile row gets
\* the role "viewer".
C8_Original ==
    /\ Unauthenticated(lastReq) => GateRejects401(lastReq)
    /\ NoProfileMeansViewer(lastReq)

\* C8 amended: when the database/auth client is configured, every request without a
\* token, or whose token resolves to no user, is answered 401 and its handler never
\* runs, and a user without a profile row gets the role "viewer". (Without the
\* client the gate lets every request through with no user attached.)
C8_GateRejectsUnauthenticated ==
    supabase =>
        /\ Unauthenticated(lastReq) => GateRejects401(lastReq)
        /\ NoProfileMeansViewer(lastReq)

C8_Witness ==
    /\ supabase
    /\ lastReq.ep = "GET /api/config"
    /\ lastReq.token = "bad"
    /\ GateRejects401(lastReq)

C9_AdminEndpoints ==
    {"GET /api/users", "POST /api/users", "PUT /api/users/:id", "DELETE /api/users/:id",
     "POST /api/config"}

\* The request got past requireAuth and its role is not "admin".
ResolvedNonAdmin(req) ==
    /\ req.ep \in C9_AdminEndpoints
    /\ req.stage \in {"handler", "answered"}
    /\ req.status # 401
    /\ req.role # "admin"

\* C9: a request to an admin-only endpoint whose resolved role is not "admin" never
\* reaches its handler: it is answered 403, and the step that answers it changes
\* neither the user list nor the settings row nor the completion client.
C9_NonAdminRejected ==
    [][ResolvedNonAdmin(lastReq') =>
            /\ lastReq'.stage = "answered"
            /\ lastReq'.status = 403
            /\ ~lastReq'.ran
            /\ mockUsers' = mockUsers
            /\ app_settings' = app_settings
            /\ ai' = ai]_vars

C9_Witness ==
    /\ lastReq.ep = "POST /api/config"
    /\ lastReq.token = "tNew"
    /\ lastReq.role = "viewer"
    /\ lastReq.status = 403
    /\ ~lastReq.ran

OtherSecret(v) == IF v = "s1" THEN "s2" ELSE "s1"

\* The rows that differ from row only in the values of secret columns set in both.
SecretVariants(row) ==
    {[c \in Columns |-> IF c \in S THEN OtherSecret(row[c]) ELSE row[c]] :
        S \in SUBSET {c \in SecretColumns : row[c] # ""}}

ConfigAnswered ==
    /\ lastReq.ep = "GET /api/config"
    /\ lastReq.stage = "answered"
    /\ lastReq.cfg.present

\* C10: the response of GET /api/config is the same for every settings row that
\* differs from the stored one only in the values of secret fields set in both, and
\* reports each secret as the fixed mask when set and as empty when unset.
C10_SecretsMaskedOnRead ==
    ConfigAnswered =>
        /\ \A r2 \in SecretVariants(app_settings.row) : ConfigResponse(r2) = lastReq.cfg
        /\ \A f \in SecretFields :
              lastReq.cfg.body[f] = IF app_settings.row[ColumnOf(f)] # "" THEN Mask ELSE ""

C10_Witness ==
    /\ ConfigAnswered
    /\ app_settings.row["whatsapp_phone_number_id"] = "s2"
    /\ app_settings.row["gemini_api_key"] = "s2"
    /\ app_settings.row["fb_app_secret"] = ""
    /\ lastReq.cfg.body["geminiApiKey"] = Mask
    /\ lastReq.cfg.body["fbAppSecret"] = ""

(***************************************************************************)
(* Specification of the broadcast composer: one request from each start-up *)
(* state (the handler keeps nothing between requests), one step per await  *)
(* of the handler.                                                         *)
(***************************************************************************)
MaxRecipients == 2

BroadcastTokens == {"", "tAdmin", "tNew"}

RecipientLists ==
    UNION {[1..n -> RawNumbers] : n \in 0..MaxRecipients}

BroadcastBodies ==
    {NoBroadcastBody}
    \cup [hasNumbers : {TRUE}, numbers : RecipientLists, type : {"text", "template"}]

BroadcastInit ==
    /\ supabase \in BOOLEAN
    /\ env \in {[n \in EnvNames |-> ""],
                [n \in EnvNames |-> IF n = "WHATSAPP_TOKEN" THEN "envTok"
                                    ELSE IF n = "WHATSAPP_PHONE_NUMBER_ID" THEN "envPid" ELSE ""]}
    /\ app_settings \in {NoSettings, [exists |-> TRUE, row |-> FullRow]}
    /\ ai = ""
    /\ RetryIdle
    /\ AdminIdle
    /\ BroadcastIdle
    /\ WebhookIdle
    /\ FilesIdle
    /\ VerifyIdle
    /\ ChatIdle
    /\ DashboardIdle

\* The request's middleware (requireAuth) and lines 671-687 of the handler.
BroadcastStart ==
    /\ bcPc = "idle"
    /\ \E token \in BroadcastTokens, outage \in Outages, body \in BroadcastBodies :
        LET auth  == RequireAuth(token, outage # "auth", outage # "db")
            creds == BroadcastCreds(outage # "db")
        IN  /\ bcBody' = body
            /\ bcAuth' = auth
            /\ bcLog' = <<>>
            /\ bcIdx' = 1
            /\ IF ~auth.next
               THEN /\ bcPc' = "done"
                    /\ bcResp' = [status |-> auth.status, report |-> NoResults]
                    /\ bcCreds' = NoCreds
                    /\ bcResults' = NoResults
               ELSE IF creds.phoneNumberId = "" \/ creds.whatsappToken = ""
               THEN /\ bcPc' = "done"
                    /\ bcResp' = [status |-> 400, report |-> NoResults]
                    /\ bcCreds' = creds
                    /\ bcResults' = NoResults
               ELSE IF ~body.hasNumbers
               THEN \* numbers.length of undefined throws: the outer catch answers 500
                    /\ bcPc' = "done"
                    /\ bcResp' = [status |-> 500, report |-> NoResults]
                    /\ bcCreds' = creds
                    /\ bcResults' = NoResults
               ELSE /\ bcPc' = "loop"
                    /\ bcResp' = NoResponse
                    /\ bcCreds' = creds
                    /\ bcResults' = [total |-> Len(body.numbers), success |-> 0,
                                     failed |-> 0, errors |-> <<>>]
    /\ UNCHANGED <<baseVars, bcOthers>>

\* Lines 689-705: the next recipient; cleanPhoneNumber runs outside the inner try, so
\* an entry that is not a string ends the request in the outer catch.
BroadcastNext ==
    /\ bcPc = "loop"
    /\ bcIdx <= Len(bcBody.numbers)
    /\ LET raw == bcBody.numbers[bcIdx]
       IN  IF ~raw.isString
           THEN /\ bcPc' = "done"
                /\ bcResp' = [status |-> 500, report |-> NoResults]
                /\ UNCHANGED bcLog
           ELSE /\ bcPc' = "sending"
                /\ bcLog' = Append(bcLog, [ev |-> "send", to |-> CleanPhoneNumber(raw.chars),
                                           type |-> bcBody.type, idx |-> bcIdx])
                /\ UNCHANGED bcResp
    /\ UNCHANGED <<baseVars, bcBody, bcAuth, bcCreds, bcIdx, bcResults, bcOthers>>

\* Lines 701-717: the send resolves or rejects.
BroadcastSent ==
    /\ bcPc = "sending"
    /\ \E out \in SendOutcomes :
        IF out.ok
        THEN /\ bcResults' = OnSendSuccess(bcResults)
             /\ bcPc' = "pacing"
             /\ UNCHANGED bcIdx
        ELSE /\ bcResults' = OnSendFailure(bcResults, CleanPhoneNumber(bcBody.numbers[bcIdx].chars), out)
             /\ bcPc' = "loop"
             /\ bcIdx' = bcIdx + 1
    /\ UNCHANGED <<baseVars, bcBody, bcAuth, bcCreds, bcLog, bcResp, bcOthers>>

\* Line 707: the 100 ms pause after a successful send is over.
BroadcastPaced ==
    /\ bcPc = "pacing"
    /\ bcPc' = "loop"
    /\ bcIdx' = bcIdx + 1
    /\ bcLog' = Append(bcLog, [ev |-> "pace", to |-> <<>>, type |-> bcBody.type, idx |-> bcIdx])
    /\ UNCHANGED <<baseVars, bcBody, bcAuth, bcCreds, bcResults, bcResp, bcOthers>>

\* Line 719: res.json(results) after the loop.
BroadcastRespond ==
    /\ bcPc = "loop"
    /\ bcIdx > Len(bcBody.numbers)
    /\ bcPc' = "done"
    /\ bcResp' = [status |-> 200, report |-> bcResults]
    /\ UNCHANGED <<baseVars, bcBody, bcAuth, bcCreds, bcIdx, bcResults, bcLog, bcOthers>>

BroadcastSteps ==
    \/ BroadcastStart
    \/ BroadcastNext
    \/ BroadcastSent
    \/ BroadcastPaced
    \/ BroadcastRespond

SpecBroadcast == BroadcastInit /\ [][BroadcastSteps]_vars

(***************************************************************************)
(* Properties of the broadcast composer.                                   *)
(***************************************************************************)
ReportReturned == bcPc = "done" /\ bcResp.status = 200

\* C6: a broadcast request with N recipients that returns a report has
\* total = N and success + failed = N in it, and one error entry per failed
\* recipient.
C6_ReportAddsUp ==
    ReportReturned =>
        /\ bcResp.report.total = Len(bcBody.numbers)
        /\ bcResp.report.success + bcResp.report.failed = Len(bcBody.numbers)
        /\ Len(bcResp.report.errors) = bcResp.report.failed

C6_Witness ==
    /\ ReportReturned
    /\ Len(bcBody.numbers) = 2
    /\ bcResp.report.success = 1
    /\ bcResp.report.failed = 1
    /\ bcResp.report.errors[1].number = <<"2", "1", "7">>
    /\ bcResp.report.errors[1].is24hWindowError

(***************************************************************************)
(* Specification of the messaging webhook: one POST from each start-up     *)
(* state; a step for the response, then a step per message of the batch.   *)
(***************************************************************************)
MaxBatch == 2

Batches == UNION {[1..n -> [type : MessageTypes]] : n \in 1..MaxBatch}

WebhookBodies ==
    {[object |-> "page", hasMessages |-> FALSE, messages |-> <<>>],
     [object |-> "whatsapp_business_account", hasMessages |-> FALSE, messages |-> <<>>]}
    \cup [object : {"whatsapp_business_account"}, hasMessages : {TRUE}, messages : Batches]

WebhookInit ==
    /\ \/ /\ supabase = FALSE
          /\ env = [n \in EnvNames |-> ""]
          /\ app_settings = NoSettings
       \/ /\ supabase = TRUE
          /\ env \in {[n \in EnvNames |-> IF n = "WHATSAPP_TOKEN" THEN "envTok" ELSE ""],
                      [n \in EnvNames |-> IF n = "GEMINI_API_KEY" THEN "k0" ELSE ""],
                      [n \in EnvNames |-> IF n = "WHATSAPP_TOKEN" THEN "envTok"
                                          ELSE IF n = "GEMINI_API_KEY" THEN "k0" ELSE ""]}
          /\ app_settings = [exists |-> TRUE, row |-> FullRow]
    /\ ai = env["GEMINI_API_KEY"]
    /\ RetryIdle
    /\ AdminIdle
    /\ BroadcastIdle
    /\ WebhookIdle
    /\ FilesIdle
    /\ VerifyIdle
    /\ ChatIdle
    /\ DashboardIdle

\* Lines 798-805: the POST arrives and is answered; a body without messages ends
\* the handler.
WebhookPost ==
    /\ whPc = "idle"
    /\ \E body \in WebhookBodies :
        /\ whBody' = body
        /\ whResp' = WebhookStatus(body)
        /\ whLog' = <<Call("respond", 0, TRUE, TRUE)>>
        /\ whIdx' = 1
        /\ whAborted' = FALSE
        /\ whPc' = IF WebhookStatus(body) = 200 /\ body.hasMessages THEN "processing" ELSE "done"
    /\ UNCHANGED <<baseVars, whOthers>>

\* Lines 807-890: one iteration of the loop; a throw that nothing inside catches
\* ends the loop in the outer catch.
WebhookMessage ==
    /\ whPc = "processing"
    /\ whIdx <= Len(whBody.messages)
    /\ \E dbOk \in (IF ai = "" THEN BOOLEAN ELSE {TRUE}),
          o \in MessageOutcomes(whBody.messages[whIdx].type) :
        LET aiNow == IF ai = "" THEN InitGenAI(dbOk) ELSE ai
            done  == ProcessMessage(whBody.messages[whIdx], whIdx, aiNow, o)
        IN  /\ ai' = aiNow
            /\ whLog' = whLog \o done.calls
            /\ whAborted' = done.abort
            /\ whIdx' = whIdx + 1
            /\ whPc' = IF done.abort \/ whIdx = Len(whBody.messages) THEN "done" ELSE "processing"
    /\ UNCHANGED <<supabase, env, app_settings, whBody, whResp, whOthers>>

WebhookSteps == WebhookPost \/ WebhookMessage

SpecWebhook == WebhookInit /\ [][WebhookSteps]_vars

WaPost == whPc # "idle" /\ whBody.object = "whatsapp_business_account"

Responses200(log) == {k \in 1..Len(log) : log[k].ev = "respond"}

\* C4 as stated: every webhook POST is answered with HTTP 200.
C4_Original == whPc # "idle" => whResp = 200

\* C4, amended: a webhook POST whose body.object is whatsapp_business_account is
\* answered with HTTP 200, the response is the first thing the handler does, before
\* any read receipt, download, model call or send, and it stays the only response
\* however the processing ends; a POST with any other object is answered 404 and
\* nothing is processed.
C4_AckBeforeProcessing ==
    /\ WaPost => /\ whResp = 200
                 /\ Responses200(whLog) = {1}
    /\ (whPc # "idle" /\ ~WaPost) => /\ whResp = 404
                                     /\ Len(whLog) = 1
                                     /\ whPc = "done"

\* A batch whose processing ended in the outer catch after calls were made: the 200
\* was sent first.
C4_Witness ==
    /\ WaPost
    /\ whPc = "done"
    /\ whAborted
    /\ Len(whLog) > 2
    /\ whLog[1].ev = "respond"
    /\ whResp = 200

\* C5: a failure while processing one message of a batch does not prevent the
\* processing of the later messages: when the handler has finished, every message
\* of the batch has had its iteration of the loop.
C5_EveryMessageProcessed ==
    (WaPost /\ whPc = "done" /\ whBody.hasMessages) => whIdx = Len(whBody.messages) + 1

(***************************************************************************)
(* Specification of the document ingest: upload requests that interleave   *)
(* at their awaits and with one delete request, one step per await.        *)
(***************************************************************************)
MaxUploads == 2

FilesInit ==
    /\ \/ /\ supabase = FALSE
          /\ app_settings = NoSettings
          /\ env \in {[n \in EnvNames |-> ""],
                      [n \in EnvNames |-> IF n = "GEMINI_API_KEY" THEN "k0" ELSE ""]}
       \/ /\ supabase = TRUE
          /\ app_settings = [exists |-> TRUE, row |-> FullRow]
          /\ env \in {[n \in EnvNames |-> ""],
                      [n \in EnvNames |-> IF n = "GEMINI_API_KEY" THEN "k0" ELSE ""]}
    /\ ai = env["GEMINI_API_KEY"]
    /\ RetryIdle
    /\ AdminIdle
    /\ BroadcastIdle
    /\ WebhookIdle
    /\ FilesIdle
    /\ VerifyIdle
    /\ ChatIdle
    /\ DashboardIdle

\* The catch block of lines 504-516: the temporary file is removed, 500 is sent
\* with the message of the error caught.
UploadFailed(r, rec, message) ==
    /\ uploadsDir' = uploadsDir \ {r}
    /\ up' = [up EXCEPT ![r] = [rec EXCEPT !.pc = "done", !.status = 500, !.error = message]]

\* Lines 428-439: multer has stored the file; the client handle is made ready and
\* the content is hashed. A new request takes the lowest slot that has no request in
\* flight.
UploadStart(r) ==
    /\ up[r].pc \in {"idle", "done"}
    /\ \A q \in UploadSlots : q < r => up[q].pc \notin {"idle", "done"}
    /\ uploadsStarted < MaxUploads
    /\ uploadsStarted' = uploadsStarted + 1
    /\ \E hasFile \in BOOLEAN, h \in FreshHashes(uploadsStarted),
          dbOk \in (IF ai = "" THEN BOOLEAN ELSE {TRUE}) :
        LET aiNow == IF ai = "" THEN InitGenAI(dbOk) ELSE ai
        IN  IF ~hasFile
            THEN /\ up' = [up EXCEPT ![r] = [NoUpload EXCEPT !.pc = "done", !.status = 400]]
                 /\ UNCHANGED <<ai, uploadsDir>>
            ELSE /\ ai' = aiNow
                 /\ uploadsDir' = uploadsDir \cup {r}
                 /\ up' = [up EXCEPT ![r] =
                             [NoUpload EXCEPT !.hash = h,
                                              !.prior = h \in accepted,
                                              !.pc = IF aiNow = "" THEN "done" ELSE "check",
                                              !.status = IF aiNow = "" THEN 500 ELSE 0,
                                              !.error = IF aiNow = "" THEN NotInitializedMessage
                                                        ELSE ""]]
    /\ UNCHANGED <<supabase, env, app_settings, documents, nextDocId, providerFiles,
                   nextFileName, del, accepted, fileOthers>>

\* Lines 441-448: the duplicate lookup, made only when the database is configured.
UploadCheck(r) ==
    /\ up[r].pc = "check"
    /\ \E dbOk \in (IF supabase THEN BOOLEAN ELSE {TRUE}) :
        LET existing == Single({d \in documents : d.hash = up[r].hash}, dbOk)
        IN  IF supabase /\ existing # NoDoc
            THEN /\ uploadsDir' = uploadsDir \ {r}
                 /\ up' = [up EXCEPT ![r].pc = "done", ![r].status = 409, ![r].doc = existing]
            ELSE /\ up' = [up EXCEPT ![r].pc = "provider"]
                 /\ UNCHANGED uploadsDir
    /\ UNCHANGED <<baseVars, documents, nextDocId, providerFiles, nextFileName, del,
                   accepted, uploadsStarted, fileOthers>>

\* Lines 451-470: ai.files.upload. file: the file object, with its name; noName: a
\* response without a usable name, for a file the provider has stored; error: the
\* call throws and nothing is stored.
UploadProvider(r) ==
    /\ up[r].pc = "provider"
    /\ \E out \in {"file", "noName", "error"} :
        /\ providerFiles' = IF out = "error" THEN providerFiles
                            ELSE providerFiles \cup {nextFileName}
        /\ nextFileName' = IF out = "error" THEN nextFileName ELSE nextFileName + 1
        /\ IF out = "file"
           THEN /\ up' = [up EXCEPT ![r].pc = "poll", ![r].file = nextFileName]
                /\ UNCHANGED uploadsDir
           ELSE UploadFailed(r, up[r], IF out = "noName" THEN InvalidFormatMessage
                                       ELSE "files.upload failed")
    /\ UNCHANGED <<baseVars, documents, nextDocId, del, accepted, uploadsStarted, fileOthers>>

\* Line 473: waitForFileActive, whole.
UploadPoll(r) ==
    /\ up[r].pc = "poll"
    /\ \E script \in PollScripts :
        LET res == WaitForFileActive(script)
            rec == [up[r] EXCEPT !.checks = res.checks, !.poll = script]
        IN  IF res.ok
            THEN /\ up' = [up EXCEPT ![r] = [rec EXCEPT !.pc = "insert"]]
                 /\ UNCHANGED uploadsDir
            ELSE UploadFailed(r, rec, res.error)
    /\ UNCHANGED <<baseVars, documents, nextDocId, providerFiles, nextFileName, del,
                   accepted, uploadsStarted, fileOthers>>

\* Lines 475-502: the metadata row is inserted (when the database is configured),
\* the temporary file removed and the success answered; an insert error leads to
\* the rollback.
UploadInsert(r) ==
    /\ up[r].pc = "insert"
    /\ \E dbOk \in (IF supabase THEN BOOLEAN ELSE {TRUE}), error \in InsertErrors :
        LET newDoc == [id |-> IF supabase THEN nextDocId ELSE 0, hash |-> up[r].hash,
                       google_name |-> up[r].file]
        IN  IF supabase /\ ~dbOk
            THEN /\ up' = [up EXCEPT ![r].pc = "rollback", ![r].insertError = error]
                 /\ UNCHANGED <<documents, nextDocId, uploadsDir, accepted>>
            ELSE /\ documents' = IF supabase THEN documents \cup {newDoc} ELSE documents
                 /\ nextDocId' = IF supabase THEN nextDocId + 1 ELSE nextDocId
                 /\ uploadsDir' = uploadsDir \ {r}
                 /\ accepted' = accepted \cup {up[r].hash}
                 /\ up' = [up EXCEPT ![r].pc = "done", ![r].status = 200, ![r].doc = newDoc]
    /\ UNCHANGED <<baseVars, providerFiles, nextFileName, del, uploadsStarted, fileOthers>>

\* Lines 492-496: the compensating delete of the provider file, its failure caught,
\* then the insert error is thrown to the catch block.
UploadRollback(r) ==
    /\ up[r].pc = "rollback"
    /\ \E deleted \in BOOLEAN :
        /\ providerFiles' = IF deleted THEN providerFiles \ {up[r].file} ELSE providerFiles
        /\ UploadFailed(r, [up[r] EXCEPT !.rollback = IF deleted THEN "deleted" ELSE "failed"],
                        RollbackThrows(up[r].insertError, deleted))
    /\ UNCHANGED <<baseVars, documents, nextDocId, nextFileName, del, accepted,
                   uploadsStarted, fileOthers>>

\* Ids a delete request can name: those the database can have given out.
DocIds == 1..MaxUploads

\* The Authorization header of a delete request: none, or the token of an admin.
\* The route has no middleware and the handler does not read the header.
DeleteTokens == {"", "tAdmin"}

\* Lines 519-527: without a database the success is answered at once; else the row
\* is looked up (404 when none is returned) and the client handle is made ready
\* when the row names a provider file.
DeleteStart ==
    /\ del.pc = "idle"
    /\ \E id \in DocIds, token \in DeleteTokens, dbOk \in BOOLEAN :
        LET doc   == Single({d \in documents : d.id = id}, dbOk)
            aiNow == IF ai = "" THEN InitGenAI(dbOk) ELSE ai
            req   == [NoDelete EXCEPT !.id = id, !.token = token]
        IN  IF ~supabase
            THEN /\ del' = [req EXCEPT !.pc = "done", !.status = 200]
                 /\ UNCHANGED ai
            ELSE IF doc = NoDoc
            THEN /\ del' = [req EXCEPT !.pc = "done", !.status = 404]
                 /\ UNCHANGED ai
            ELSE IF doc.google_name # 0
            THEN /\ ai' = aiNow
                 /\ del' = [req EXCEPT !.doc = doc,
                                       !.pc = IF aiNow # "" THEN "provider" ELSE "row"]
            ELSE /\ del' = [req EXCEPT !.doc = doc, !.pc = "row"]
                 /\ UNCHANGED ai
    /\ UNCHANGED <<supabase, env, app_settings, documents, nextDocId, providerFiles,
                   nextFileName, uploadsDir, up, accepted, uploadsStarted, fileOthers>>

\* Lines 528-536: ai.files.delete; its failure is logged and goes no further.
DeleteProvider ==
    /\ del.pc = "provider"
    /\ \E deleted \in BOOLEAN :
        providerFiles' = IF deleted THEN providerFiles \ {del.doc.google_name}
                         ELSE providerFiles
    /\ del' = [del EXCEPT !.pc = "row", !.tried = TRUE]
    /\ UNCHANGED <<baseVars, documents, nextDocId, nextFileName, uploadsDir, up, accepted,
                   uploadsStarted, fileOthers>>

\* Lines 539-540: the row is deleted; the result of the query is not looked at, and
\* the success is answered.
DeleteRow ==
    /\ del.pc = "row"
    /\ \E dbOk \in BOOLEAN :
        documents' = IF dbOk THEN {d \in documents : d.id # del.id} ELSE documents
    /\ del' = [del EXCEPT !.pc = "done", !.status = 200]
    /\ accepted' = accepted \ {del.doc.hash}
    /\ UNCHANGED <<baseVars, nextDocId, providerFiles, nextFileName, uploadsDir, up,
                   uploadsStarted, fileOthers>>

FilesSteps ==
    \/ \E r \in UploadSlots : UploadStart(r)
    \/ \E r \in UploadSlots : UploadCheck(r)
    \/ \E r \in UploadSlots : UploadProvider(r)
    \/ \E r \in UploadSlots : UploadPoll(r)
    \/ \E r \in UploadSlots : UploadInsert(r)
    \/ \E r \in UploadSlots : UploadRollback(r)
    \/ DeleteStart
    \/ DeleteProvider
    \/ DeleteRow

SpecFiles == FilesInit /\ [][FilesSteps]_vars

UploadAnswered(r) == up[r].pc = "done" /\ up[r].status # 0

\* C1: of two upload requests handled one after the other with the same content
\* hash, the second is answered 409 with the existing record and creates neither a
\* provider file nor a metadata row. The first is taken to have been answered with
\* a success that no successful delete has followed (prior), and the database to
\* be configured.
C1_SecondUploadConflicts ==
    \A r \in UploadSlots :
        (supabase /\ UploadAnswered(r) /\ up[r].prior) =>
            /\ up[r].status = 409
            /\ up[r].doc.hash = up[r].hash
            /\ up[r].file = 0

\* C7: once a delete request for an uploaded document has been answered with
\* success, the listing no longer holds the document, and the deletion of its
\* provider file was attempted before the row was removed.
C7_DeletedLeavesListing ==
    (del.pc = "done" /\ del.status = 200 /\ del.doc # NoDoc) =>
        /\ \A d \in ListFiles(TRUE) : d.id # del.id
        /\ del.tried

(***************************************************************************)
(* Specification of the subscription handshake: GET /webhook requests with *)
(* any query, against a server with or without a verify token in its       *)
(* environment and in its settings row.                                    *)
(***************************************************************************)
VerifyQueries ==
    [mode : {Undef, "subscribe", "unsubscribe"},
     verify_token : {Undef, "", "vt", "s1"},
     challenge : {Undef, "c1", "c2"}]

VerifyInit ==
    /\ supabase = TRUE
    /\ env \in {[n \in EnvNames |-> ""],
                [n \in EnvNames |-> IF n = "VERIFY_TOKEN" THEN "vt" ELSE ""]}
    /\ app_settings \in {NoSettings, [exists |-> TRUE, row |-> FullRow]}
    /\ ai = ""
    /\ RetryIdle
    /\ AdminIdle
    /\ BroadcastIdle
    /\ WebhookIdle
    /\ FilesIdle
    /\ VerifyIdle
    /\ ChatIdle
    /\ DashboardIdle

\* Lines 789-796.
WebhookVerify ==
    /\ \E query \in VerifyQueries :
        /\ vfQuery' = query
        /\ vfResp' = VerifyResponse(query)
    /\ UNCHANGED <<baseVars, vfOthers>>

VerifySteps == WebhookVerify

SpecVerify == VerifyInit /\ [][VerifySteps]_vars

VerifyAnswered == vfResp.status # 0

\* C11: with a verify token in the environment, a webhook GET is answered 200 with
\* the challenge echoed exactly when its mode is "subscribe" and its verify token
\* equals the configured one; every other GET is answered 403 without the challenge.
C11_HandshakeIffTokenMatches ==
    (VerifyAnswered /\ env["VERIFY_TOKEN"] # "") =>
        IF vfQuery.mode = "subscribe" /\ vfQuery.verify_token = env["VERIFY_TOKEN"]
        THEN vfResp.status = 200 /\ vfResp.body = vfQuery.challenge
        ELSE vfResp.status = 403 /\ vfResp.body # vfQuery.challenge

\* An accepted handshake and, for the same token, one refused for its mode.
C11_Witness ==
    /\ VerifyAnswered
    /\ env["VERIFY_TOKEN"] = "vt"
    /\ vfQuery.verify_token = "vt"
    /\ vfQuery.mode = "subscribe"
    /\ vfQuery.challenge = "c2"
    /\ vfResp = [status |-> 200, body |-> "c2"]

\* The provider files the requests in flight and the stored rows stand for, by
\* content hash.
FilesOfHash(h) ==
    {f \in providerFiles :
        \/ \E r \in UploadSlots : up[r].file = f /\ up[r].hash = h
        \/ \E d \in documents : d.google_name = f /\ d.hash = h}

\* C12: with the database configured, under any interleaving of upload requests, no
\* two metadata rows have the same content hash and at most one provider file exists
\* per content hash.
C12_HashUniqueUnderInterleaving ==
    supabase =>
        /\ \A d1, d2 \in documents : d1.hash = d2.hash => d1 = d2
        /\ \A h \in Hashes : Cardinality(FilesOfHash(h)) <= 1

RolledBack(r) == up[r].insertError # ""

\* C13: when the metadata insert fails after the provider upload succeeded, the
\* compensating delete of that provider file is issued while nothing has been
\* answered yet, and the answer is 500 with the error of the insert, whether the
\* compensating delete succeeded or failed.
C13_RollbackThenOriginalError ==
    \A r \in UploadSlots :
        /\ up[r].pc = "rollback" => /\ RolledBack(r)
                                    /\ up[r].status = 0
                                    /\ up[r].file # 0
        /\ (RolledBack(r) /\ up[r].pc = "done") =>
               /\ up[r].rollback \in {"deleted", "failed"}
               /\ up[r].rollback = "deleted" => up[r].file \notin providerFiles
               /\ up[r].status = 500
               /\ up[r].error = up[r].insertError
               /\ \A d \in documents : d.google_name # up[r].file

\* An upload answered with the insert error after a compensating delete that failed.
C13_Witness ==
    \E r \in UploadSlots :
        /\ up[r].pc = "done"
        /\ up[r].insertError \in InsertErrors
        /\ up[r].rollback = "failed"
        /\ up[r].file \in providerFiles
        /\ up[r].status = 500
        /\ up[r].error = up[r].insertError

\* C14: for every message whose media download or model invocation failed, the
\* handler caught the error in that message's processing and went on to send the
\* fallback reply for that message.
C14_FailureGetsFallback ==
    \A k \in 1..Len(whLog) :
        (whLog[k].ev \in {"download", "model"} /\ ~whLog[k].ok) =>
            \E j \in (k + 1)..Len(whLog) :
                whLog[j].ev = "fallback" /\ whLog[j].msg = whLog[k].msg

PassedCredentialCheck ==
    bcPc # "idle" /\ bcCreds.phoneNumberId # "" /\ bcCreds.whatsappToken # ""

SendsAttempted == {k \in 1..Len(bcLog) : bcLog[k].ev = "send"}

\* C15: a broadcast request that passed the credential check and carries a recipient
\* list ends with the aggregate report as its response, after a send was attempted
\* for every entry of the list.
C15_EveryRecipientAttempted ==
    (PassedCredentialCheck /\ bcPc = "done" /\ bcBody.hasNumbers) =>
        /\ bcResp.status = 200
        /\ bcResp.report = bcResults
        /\ Cardinality(SendsAttempted) = Len(bcBody.numbers)

\* C16: a broadcast request of an authenticated user whose role is not "admin" is
\* answered with the authorization error (403) and no outbound message is sent for
\* it.
C16_BroadcastAdminOnly ==
    (bcAuth.next /\ bcAuth.user # "" /\ bcAuth.role # "admin") =>
        /\ SendsAttempted = {}
        /\ bcPc = "done" => bcResp.status = 403

\* What requireAuth and requireAdmin would decide for the token of a request.
IsAdminToken(token) == supabase /\ RequireAdmin(RequireAuth(token, TRUE, TRUE))

\* C17: a step of a delete request that carries no valid token, or whose user is not
\* an admin, leaves the documents table and the provider file store unchanged.
C17_OnlyAdminDeletes ==
    [][(del' # del /\ ~IsAdminToken(del'.token)) =>
           UNCHANGED <<documents, providerFiles>>]_vars

\* C18: for an audio or image message whose media is larger than the ceiling, the
\* media body is not downloaded and not passed to the model; the download step
\* fails and the fallback reply is sent for the message.
C18_OversizeNeverDownloaded ==
    \A k \in 1..Len(whLog) :
        (whLog[k].ev = "download" /\ whLog[k].tooLarge) =>
            /\ ~whLog[k].sent
            /\ ~whLog[k].ok
            /\ \A j \in 1..Len(whLog) :
                   whLog[j].msg = whLog[k].msg => whLog[j].ev # "model"
            /\ \E j \in (k + 1)..Len(whLog) :
                   whLog[j].ev = "fallback" /\ whLog[j].msg = whLog[k].msg

\* A step in which POST /api/config answers success.
SettingsWritten ==
    /\ lastReq.stage = "handler"
    /\ lastReq.ep = "POST /api/config"
    /\ lastReq'.stage = "answered"
    /\ lastReq'.status = 200

StoredBefore(f) == IF app_settings.exists THEN app_settings.row[ColumnOf(f)] ELSE ""

\* C19: after a settings write, every secret field that was absent, empty or equal
\* to the mask in the request has its stored value unchanged, and every secret field
\* sent with a new non-empty, non-mask value is stored.
C19_SecretsSelectivelyOverwritten ==
    [][SettingsWritten =>
          \A f \in SecretFields :
              app_settings'.row[ColumnOf(f)] =
                  IF lastReq'.cfg.body[f] \in {Undef, "", Mask} THEN StoredBefore(f)
                  ELSE lastReq'.cfg.body[f]]_vars

\* The settings row holds a value for column while the environment has none for name.
OnlyInSettings(name, column) ==
    /\ env[name] = ""
    /\ supabase
    /\ app_settings.exists
    /\ app_settings.row[column] # ""

\* C20, for the messaging channel token in the webhook: when WHATSAPP_TOKEN is absent
\* from the environment and the settings row holds a token, every reply, fallback
\* or notice the webhook sends goes out with the settings-row token.
C20_SettingsRowUsedWhenEnvAbsent ==
    OnlyInSettings("WHATSAPP_TOKEN", "whatsapp_token") =>
        \A k \in 1..Len(whLog) :
            whLog[k].ev \in {"reply", "fallback", "notice"} => whLog[k].sent

\* C21, for the broadcast: a request that passed the auth gate and whose body has no
\* recipient list is answered 400, and no outbound message is sent for it.
C21_MalformedBroadcastIs400 ==
    (bcPc = "done" /\ bcAuth.next /\ ~bcBody.hasNumbers) =>
        /\ bcResp.status = 400
        /\ SendsAttempted = {}

(***************************************************************************)
(* Specification of the chat relay: POST /api/chat requests, one step per  *)
(* request, until the request log holds MaxChats rows.                     *)
(***************************************************************************)
MaxChats == 2

ChatInit ==
    /\ \/ /\ supabase = FALSE
          /\ app_settings = NoSettings
       \/ /\ supabase = TRUE
          /\ app_settings = [exists |-> TRUE, row |-> FullRow]
    /\ env \in {[n \in EnvNames |-> ""],
                [n \in EnvNames |-> IF n = "GEMINI_API_KEY" THEN "k0" ELSE ""]}
    /\ ai = env["GEMINI_API_KEY"]
    /\ RetryIdle
    /\ AdminIdle
    /\ BroadcastIdle
    /\ WebhookIdle
    /\ FilesIdle
    /\ VerifyIdle
    /\ ChatIdle
    /\ DashboardIdle

\* Lines 727-786: requireAuth; the completion call through the retry wrapper with
\* the client handle as it is; the insert into request_logs, whose result is not
\* looked at; the answer.
ChatRequest ==
    /\ Len(request_logs) < MaxChats
    /\ \E token \in Tokens, outage \in Outages, body \in ChatBodies, script \in ModelScripts,
          logOk \in BOOLEAN :
        LET auth == RequireAuth(token, outage # "auth", outage # "db")
            call == CallGeminiWithRetry(ai, DefaultRetries, script, NoJitter)
        IN  /\ chReq' = [kind |-> body.kind, message |-> body.message, user |-> auth.user]
            /\ IF ~auth.next
               THEN /\ chResp' = [status |-> auth.status, text |-> ""]
                    /\ UNCHANGED request_logs
               ELSE IF call.result.how # "returned"
               THEN /\ chResp' = [status |-> 500, text |-> call.result.value.message]
                    /\ UNCHANGED request_logs
               ELSE /\ chResp' = [status |-> 200, text |-> call.result.value.message]
                    /\ request_logs' =
                           IF supabase /\ logOk
                           THEN Append(request_logs,
                                       ChatLogRow(body, auth.user, call.result.value.message))
                           ELSE request_logs
    /\ UNCHANGED <<baseVars, chatOthers>>

ChatSteps == ChatRequest

SpecChat == ChatInit /\ [][ChatSteps]_vars

\* The model replies the webhook has obtained so far.
WebhookReplies == {k \in 1..Len(whLog) : whLog[k].ev = "model" /\ whLog[k].ok}

WhatsAppRows == {k \in 1..Len(request_logs) : request_logs[k].channel = "whatsapp"}

\* C22, for the messaging webhook: with the database configured, every exchange in
\* which the webhook obtained a model reply has appended one row to the request log.
C22_WebhookExchangeLogged ==
    supabase => Cardinality(WhatsAppRows) = Cardinality(WebhookReplies)

OtherError(r) == r.kind = "err" /\ ~InvalidKeyCondition(r) /\ ~TransientStatus(r)

\* C23: in the log of one call of the retry wrapper, an attempt that succeeded is
\* the last event and the call returned its response; an attempt that failed
\* with an error that is neither the invalid-credential condition nor transient
\* (503, 429, 500) is the last event, with no sleep after it, and the call threw
\* that same error; and the call never makes more than DefaultRetries attempts.
C23_SuccessAndOtherErrorsEndCall ==
    /\ Cardinality(AttemptIdx) <= DefaultRetries
    /\ \A k \in AttemptIdx :
        /\ retryLog[k].resp.kind = "ok" =>
              /\ k = Len(retryLog)
              /\ retryPc = "done"
              /\ retryResult = [how |-> "returned", value |-> retryLog[k].resp,
                                attempt |-> retryLog[k].i]
        /\ OtherError(retryLog[k].resp) =>
              /\ k = Len(retryLog)
              /\ retryPc = "done"
              /\ retryResult = [how |-> "thrown", value |-> retryLog[k].resp,
                                attempt |-> retryLog[k].i]

C23_Witness ==
    /\ retryPc = "done"
    /\ Len(retryLog) = 3
    /\ retryLog[1].resp.status = 503
    /\ retryLog[2].ev = "sleep"
    /\ retryLog[3].resp = [kind |-> "err", status |-> 403, message |-> "other"]
    /\ retryResult.how = "thrown"
    /\ retryResult.value = retryLog[3].resp

SendIdx == {k \in 1..Len(bcLog) : bcLog[k].ev = "send"}

\* C24: within one broadcast request the sends are started in list order, one at
\* a time, and every send after the first is immediately preceded by the pacing
\* delay, whether the send before it succeeded or failed.
C24_SendsSequentialAndPaced ==
    /\ \A j, k \in SendIdx : j < k => bcLog[j].idx < bcLog[k].idx
    /\ \A k \in SendIdx : k > 1 => bcLog[k - 1].ev = "pace"

StepRank(ev) ==
    IF ev = "read" THEN 1
    ELSE IF ev = "reaction" THEN 2
    ELSE IF ev = "download" THEN 3
    ELSE IF ev = "model" THEN 4
    ELSE IF ev = "reply" THEN 5
    ELSE 6

IsMedia(msg) == whBody.messages[msg].type \in {"audio", "image"}

\* C25: the steps logged for one inbound message are in the order read receipt,
\* reaction, media download, completion call, reply (then the fallback text, if
\* any); the reaction and the download occur for audio and image messages only;
\* every reply is preceded by the read receipt of its message; and whatever the
\* outcome of the read receipt or of the reaction, the next step follows it: the
\* completion call after the read receipt of a text message, the reaction after
\* the read receipt of a media message, the download after the reaction.
C25_StepsInOrderReceiptsSwallowed ==
    \A k \in 1..Len(whLog) :
        LET e == whLog[k]
        IN  /\ \A j \in 1..(k - 1) :
                  whLog[j].msg = e.msg => StepRank(whLog[j].ev) < StepRank(e.ev)
            /\ e.ev \in {"reaction", "download"} => IsMedia(e.msg)
            /\ e.ev = "reply" =>
                  \E j \in 1..(k - 1) : whLog[j].msg = e.msg /\ whLog[j].ev = "read"
            /\ e.ev = "read" =>
                  /\ k < Len(whLog)
                  /\ whLog[k + 1].msg = e.msg
                  /\ whLog[k + 1].ev = IF IsMedia(e.msg) THEN "reaction" ELSE "model"
            /\ e.ev = "reaction" =>
                  /\ k < Len(whLog)
                  /\ whLog[k + 1].msg = e.msg
                  /\ whLog[k + 1].ev = "download"

C25_Witness ==
    /\ env["WHATSAPP_TOKEN"] # ""
    /\ Len(whLog) = 6
    /\ whLog[1].ev = "respond"
    /\ IsMedia(whLog[2].msg)
    /\ whLog[2].ev = "read" /\ ~whLog[2].sent
    /\ whLog[3].ev = "reaction" /\ ~whLog[3].sent
    /\ whLog[4].ev = "download" /\ whLog[4].ok
    /\ whLog[5].ev = "model" /\ whLog[5].ok
    /\ whLog[6].ev = "reply" /\ whLog[6].ok

Polled(r) == up[r].poll # NoPoll

PollSucceeded(r) ==
    up[r].pc \in {"insert", "rollback"} \/ up[r].status = 200 \/ up[r].rollback # "none"

PollFailedWith(r, message) ==
    /\ up[r].pc = "done"
    /\ up[r].status = 500
    /\ up[r].error = message
    /\ up[r].doc = NoDoc

\* C26: a finished activation poll made at most 30 status checks; when a check
\* reported ACTIVE it succeeded at that check; when a check reported FAILED it
\* failed at that check; when 30 checks reported neither it failed with the
\* timeout error; and every metadata row that is persisted belongs to an upload
\* whose poll observed ACTIVE.
C26_PollBoundedRowOnlyIfActive ==
    /\ [](\A r \in UploadSlots :
            Polled(r) =>
              /\ up[r].checks \in 1..PollLimit
              /\ (up[r].poll.state = "ACTIVE" /\ up[r].poll.at <= PollLimit) =>
                    up[r].checks = up[r].poll.at /\ PollSucceeded(r)
              /\ up[r].poll.state = "FAILED" =>
                    /\ up[r].checks = up[r].poll.at
                    /\ PollFailedWith(r, "File processing failed on Google side.")
              /\ up[r].poll.at > PollLimit =>
                    /\ up[r].checks = PollLimit
                    /\ PollFailedWith(r, "File processing timed out."))
    /\ [][\A d \in documents' \ documents :
            \E r \in UploadSlots :
                /\ up[r].pc = "insert"
                /\ d.google_name = up[r].file
                /\ up[r].poll.state = "ACTIVE"
                /\ up[r].checks = up[r].poll.at
                /\ up[r].checks <= PollLimit]_vars

C26_Witness ==
    \E r \in UploadSlots :
        /\ up[r].poll = [at |-> PollLimit, state |-> "ACTIVE"]
        /\ up[r].checks = PollLimit
        /\ up[r].status = 200
        /\ up[r].doc \in documents

UploadsFinished == \A r \in UploadSlots : up[r].pc \in {"idle", "done"}

\* C27: once every upload request has finished, with the database configured,
\* every provider delete made by a rollback successful and no delete request
\* made, every file held by the provider is referenced by a metadata row.
C27_NoOrphanedProviderFile ==
    (/\ supabase
     /\ UploadsFinished
     /\ del.pc = "idle"
     /\ \A r \in UploadSlots : up[r].rollback # "failed")
    => \A f \in providerFiles : \E d \in documents : d.google_name = f

\* C28: the temporary local copy of a finished upload request is no longer in
\* the uploads directory.
C28_TemporaryFileRemoved ==
    \A r \in UploadSlots : up[r].pc = "done" => r \notin uploadsDir

\* C29: with no VERIFY_TOKEN in the environment, every webhook GET, the one that
\* supplies no hub.verify_token included, is answered 403 and the challenge is
\* not echoed.
C29_NoTokenNoHandshake ==
    (VerifyAnswered /\ env["VERIFY_TOKEN"] = "") =>
        vfResp.status = 403 /\ vfResp.body # vfQuery.challenge

(***************************************************************************)
(* Specification of the dashboard's StrategyHub component: strategy         *)
(* generation and the broadcast dialog. A handler runs to its first await   *)
(* in one step; the settling of its fetch and each timer are later steps.   *)
(* One handleGenerate and one executeSend are in flight at a time.          *)
(***************************************************************************)
MaxPendingTimers == 1

\* How a fetch settles: a 2xx answer, another answer, or a rejected promise.
FetchOutcomes == {"ok", "notOk", "unreachable"}

DashboardInit ==
    /\ supabase = TRUE
    /\ env = [n \in EnvNames |-> ""]
    /\ ai = ""
    /\ app_settings = NoSettings
    /\ RetryIdle
    /\ AdminIdle
    /\ BroadcastIdle
    /\ WebhookIdle
    /\ FilesIdle
    /\ VerifyIdle
    /\ ChatIdle
    /\ DashboardIdle

\* Lines 185-191: the button (disabled while loading) starts a generation.
HandleGenerate ==
    /\ ~loading
    /\ genPc = "idle"
    /\ mockTimers < MaxPendingTimers
    /\ loadingTimers < MaxPendingTimers
    /\ loading' = TRUE
    /\ result' = "null"
    /\ connectionStatus' = "unknown"
    /\ genConn' = connectionStatus
    /\ genPc' = "fetching"
    /\ UNCHANGED <<baseVars, isSendModalOpen, sending, sendReport, sendPc, sendConn,
                   mockTimers, loadingTimers, sendTimers, dashOthers>>

\* Lines 192-222: the fetch settles; the catch block arms the mock timer; the
\* finally block reads the connectionStatus of the closure.
GenerateSettled ==
    /\ genPc = "fetching"
    /\ \E out \in FetchOutcomes :
        /\ IF out = "ok"
           THEN /\ result' = "data"
                /\ connectionStatus' = "connected"
                /\ UNCHANGED mockTimers
           ELSE /\ mockTimers' = mockTimers + 1
                /\ UNCHANGED <<result, connectionStatus>>
        /\ IF genConn = "connected"
           THEN /\ loading' = FALSE
                /\ UNCHANGED loadingTimers
           ELSE /\ loadingTimers' = loadingTimers + 1
                /\ UNCHANGED loading
    /\ genPc' = "idle"
    /\ UNCHANGED <<baseVars, isSendModalOpen, sending, sendReport, genConn, sendPc,
                   sendConn, sendTimers, dashOthers>>

\* Lines 208-212: the mock strategy is shown.
MockTimerFired ==
    /\ mockTimers > 0
    /\ mockTimers' = mockTimers - 1
    /\ result' = "mock"
    /\ connectionStatus' = "disconnected"
    /\ UNCHANGED <<baseVars, loading, isSendModalOpen, sending, sendReport, genPc, genConn,
                   sendPc, sendConn, loadingTimers, sendTimers, dashOthers>>

\* Line 220: setTimeout(() => setLoading(false), 1500).
LoadingTimerFired ==
    /\ loadingTimers > 0
    /\ loadingTimers' = loadingTimers - 1
    /\ loading' = FALSE
    /\ UNCHANGED <<baseVars, connectionStatus, result, isSendModalOpen, sending, sendReport,
                   genPc, genConn, sendPc, sendConn, mockTimers, sendTimers, dashOthers>>

\* Lines 227-235: 'publish' on an item of the shown strategy opens the dialog.
OpenSendModal ==
    /\ result # "null"
    /\ ~isSendModalOpen
    /\ isSendModalOpen' = TRUE
    /\ sendReport' = "null"
    /\ UNCHANGED <<baseVars, connectionStatus, loading, result, sending, genPc, genConn,
                   sendPc, sendConn, mockTimers, loadingTimers, sendTimers, dashOthers>>

\* Lines 540, 740: the dialog is closed.
CloseSendModal ==
    /\ isSendModalOpen
    /\ isSendModalOpen' = FALSE
    /\ UNCHANGED <<baseVars, connectionStatus, loading, result, sending, sendReport, genPc,
                   genConn, sendPc, sendConn, mockTimers, loadingTimers, sendTimers,
                   dashOthers>>

\* Lines 261-276: the broadcast button (disabled while sending); valid is FALSE
\* when one of the early returns of lines 271-273 is taken.
ExecuteSend ==
    /\ isSendModalOpen
    /\ ~sending
    /\ sendPc = "idle"
    /\ sendTimers < MaxPendingTimers
    /\ \E valid \in BOOLEAN :
        IF ~valid
        THEN UNCHANGED <<sending, sendReport, sendPc, sendConn>>
        ELSE /\ sending' = TRUE
             /\ sendReport' = "null"
             /\ sendConn' = connectionStatus
             /\ sendPc' = "fetching"
    /\ UNCHANGED <<baseVars, connectionStatus, loading, result, isSendModalOpen, genPc,
                   genConn, mockTimers, loadingTimers, sendTimers, dashOthers>>

\* Lines 278-314: the fetch settles. ok: the report is shown; otherwise the catch
\* block arms the 1000 ms timer; the finally block clears sending only when the
\* closure's connectionStatus is 'connected'.
SendSettled ==
    /\ sendPc = "fetching"
    /\ \E out \in FetchOutcomes :
        IF out = "ok"
        THEN /\ sendReport' = "report"
             /\ UNCHANGED sendTimers
        ELSE /\ sendTimers' = sendTimers + 1
             /\ UNCHANGED sendReport
    /\ sending' = IF sendConn = "connected" THEN FALSE ELSE sending
    /\ sendPc' = "idle"
    /\ UNCHANGED <<baseVars, connectionStatus, loading, result, isSendModalOpen, genPc,
                   genConn, sendConn, mockTimers, loadingTimers, dashOthers>>

\* Lines 304-311: the simulated report is shown and sending cleared.
SendTimerFired ==
    /\ sendTimers > 0
    /\ sendTimers' = sendTimers - 1
    /\ sendReport' = "simulated"
    /\ sending' = FALSE
    /\ UNCHANGED <<baseVars, connectionStatus, loading, result, isSendModalOpen, genPc,
                   genConn, sendPc, sendConn, mockTimers, loadingTimers, dashOthers>>

DashboardSteps ==
    \/ HandleGenerate
    \/ GenerateSettled
    \/ MockTimerFired
    \/ LoadingTimerFired
    \/ OpenSendModal
    \/ CloseSendModal
    \/ ExecuteSend
    \/ SendSettled
    \/ SendTimerFired

\* Every fetch settles and every armed timer fires; the user's clicks are not
\* forced.
DashboardFairness ==
    /\ WF_vars(GenerateSettled)
    /\ WF_vars(MockTimerFired)
    /\ WF_vars(LoadingTimerFired)
    /\ WF_vars(SendSettled)
    /\ WF_vars(SendTimerFired)

SpecDashboard == DashboardInit /\ [][DashboardSteps]_vars /\ DashboardFairness

\* C30: in the broadcast dialog, whenever sending is true it eventually becomes
\* false again, whether the backend answers with a report, answers with an
\* error or is unreachable, and whatever connectionStatus is.
C30_SendingEventuallyEnds == sending ~> ~sending

====
